---- MODULE Spec2Model ----
(***************************************************************************)
(* Model of backend/services/diagram_service.py (DiagramService): the      *)
(* component name deriver (extract_components_from_figma) and the ASCII    *)
(* diagram layout engine (create_ascii_box, create_vertical_arrow,         *)
(* create_box_diagram, generate_ascii_diagram).                            *)
(*                                                                         *)
(* Text is a sequence of characters, each character a one-character        *)
(* string.  The backtick cannot be written inside a TLA+ string, so the    *)
(* single token "bt" stands for that one character.                        *)
(***************************************************************************)
EXTENDS Integers, Sequences, FiniteSets, TLC

\* ------------------------------------------------------------------------
\* Characters and Python str operations
\* ------------------------------------------------------------------------
BT == "bt"
NL == "\n"
SP == " "
DQ == "\""
Whitespace == {" ", "\n", "\t", "\r"}
Digits == {"0", "1", "2", "3", "4", "5", "6", "7", "8", "9"}

Min(a, b) == IF a < b THEN a ELSE b
Max(a, b) == IF a > b THEN a ELSE b

\* s * n for a one-character str s
RECURSIVE Rep(_, _)
Rep(c, n) == IF n <= 0 THEN <<>> ELSE <<c>> \o Rep(c, n - 1)

\* list[:n] and list[a:b] of Python, for 0 <= a and b possibly negative
Take(seq, n) == SubSeq(seq, 1, Min(n, Len(seq)))

\* str.strip(): drop leading and trailing whitespace
RECURSIVE LStrip(_)
LStrip(s) == IF s # <<>> /\ Head(s) \in Whitespace THEN LStrip(Tail(s)) ELSE s
RECURSIVE RStrip(_)
RStrip(s) ==
    IF s # <<>> /\ s[Len(s)] \in Whitespace THEN RStrip(SubSeq(s, 1, Len(s) - 1)) ELSE s
Strip(s) == RStrip(LStrip(s))

\* str.startswith(prefix)
StartsWith(s, prefix) ==
    Len(s) >= Len(prefix) /\ SubSeq(s, 1, Len(prefix)) = prefix

\* str.split('\n'): the pieces between consecutive newlines, always at least one
LineBreaks(s) == {0, Len(s) + 1} \cup { i \in 1..Len(s) : s[i] = NL }
NthBreak(breaks, k) ==
    CHOOSE b \in breaks : Cardinality({ c \in breaks : c < b }) = k - 1
SplitLines(s) ==
    LET breaks == LineBreaks(s) IN
    [k \in 1..(Cardinality(breaks) - 1) |->
        SubSeq(s, NthBreak(breaks, k) + 1, NthBreak(breaks, k + 1) - 1)]

\* '\n'.join(lines)
RECURSIVE JoinLines(_)
JoinLines(lines) ==
    IF lines = <<>> THEN <<>>
    ELSE IF Len(lines) = 1 THEN lines[1]
    ELSE lines[1] \o <<NL>> \o JoinLines(Tail(lines))

\* ------------------------------------------------------------------------
\* Python values (what json.loads can return, and what `components` holds)
\* ------------------------------------------------------------------------
PyStr(s) == [t |-> "str", s |-> s, n |-> 0, items |-> <<>>]
PyInt(n) == [t |-> "int", s |-> <<>>, n |-> n, items |-> <<>>]
PyBool(b) == [t |-> "bool", s |-> <<>>, n |-> IF b THEN 1 ELSE 0, items |-> <<>>]
PyNone == [t |-> "none", s |-> <<>>, n |-> 0, items |-> <<>>]
PyList(items) == [t |-> "list", s |-> <<>>, n |-> 0, items |-> items]
\* a dict keeps its members as (key, value) entries in insertion order
PyMember(k, v) == [t |-> "member", s |-> k, n |-> 0, items |-> <<v>>]
PyDict(members) == [t |-> "dict", s |-> <<>>, n |-> 0, items |-> members]

\* bool(v) of Python
Truthy(v) ==
    CASE v.t = "str" -> v.s # <<>>
      [] v.t = "int" -> v.n # 0
      [] v.t = "bool" -> v.n = 1
      [] v.t = "none" -> FALSE
      [] OTHER -> v.items # <<>>

\* ------------------------------------------------------------------------
\* json.loads on a str: a recursive-descent parser.  Escape sequences,
\* negative numbers, fractions and exponents are outside the alphabet used.
\* ------------------------------------------------------------------------
ParseFail == [ok |-> FALSE, v |-> PyNone, next |-> 0]
ParseOk(v, next) == [ok |-> TRUE, v |-> v, next |-> next]

RECURSIVE SkipWs(_, _)
SkipWs(s, i) == IF i <= Len(s) /\ s[i] \in Whitespace THEN SkipWs(s, i + 1) ELSE i

DigitVal(c) ==
    CASE c = "0" -> 0 [] c = "1" -> 1 [] c = "2" -> 2 [] c = "3" -> 3 [] c = "4" -> 4
      [] c = "5" -> 5 [] c = "6" -> 6 [] c = "7" -> 7 [] c = "8" -> 8 [] OTHER -> 9

\* the digits of a number starting at i, given the value read so far
RECURSIVE ParseDigits(_, _, _)
ParseDigits(s, i, acc) ==
    IF i <= Len(s) /\ s[i] \in Digits
    THEN ParseDigits(s, i + 1, acc * 10 + DigitVal(s[i]))
    ELSE ParseOk(PyInt(acc), i)

\* a JSON number: "0" alone, or a non-zero digit followed by digits
ParseNumber(s, i) ==
    IF s[i] = "0" THEN ParseOk(PyInt(0), i + 1) ELSE ParseDigits(s, i, 0)

\* the body of a string literal whose opening quote is at i - 1
RECURSIVE ParseStringBody(_, _, _)
ParseStringBody(s, i, acc) ==
    IF i > Len(s) THEN ParseFail
    ELSE IF s[i] = DQ THEN ParseOk(PyStr(acc), i + 1)
    ELSE IF s[i] \in {"\n", "\t", "\r", "\\"} THEN ParseFail
    ELSE ParseStringBody(s, i + 1, Append(acc, s[i]))

ParseLiteral(s, i, word, v) ==
    IF i + Len(word) - 1 <= Len(s) /\ SubSeq(s, i, i + Len(word) - 1) = word
    THEN ParseOk(v, i + Len(word))
    ELSE ParseFail

RECURSIVE ParseValue(_, _)
RECURSIVE ParseElements(_, _, _)
RECURSIVE ParseMembers(_, _, _)

\* elements of an array after '[' or ',': i is at the start of an element
ParseElements(s, i, acc) ==
    LET e == ParseValue(s, i) IN
    IF ~e.ok THEN ParseFail
    ELSE LET j == SkipWs(s, e.next) IN
         IF j > Len(s) THEN ParseFail
         ELSE IF s[j] = "]" THEN ParseOk(PyList(Append(acc, e.v)), j + 1)
         ELSE IF s[j] = "," THEN ParseElements(s, SkipWs(s, j + 1), Append(acc, e.v))
         ELSE ParseFail

\* members of an object after '{' or ',': i is at the start of a key
ParseMembers(s, i, acc) ==
    IF i > Len(s) \/ s[i] # DQ THEN ParseFail
    ELSE LET k == ParseStringBody(s, i + 1, <<>>) IN
         IF ~k.ok THEN ParseFail
         ELSE LET c == SkipWs(s, k.next) IN
              IF c > Len(s) \/ s[c] # ":" THEN ParseFail
              ELSE LET e == ParseValue(s, SkipWs(s, c + 1)) IN
                   IF ~e.ok THEN ParseFail
                   ELSE LET j == SkipWs(s, e.next)
                            m == Append(acc, PyMember(k.v.s, e.v))
                        IN IF j > Len(s) THEN ParseFail
                           ELSE IF s[j] = "}" THEN ParseOk(PyDict(m), j + 1)
                           ELSE IF s[j] = "," THEN ParseMembers(s, SkipWs(s, j + 1), m)
                           ELSE ParseFail

ParseValue(s, i) ==
    IF i > Len(s) THEN ParseFail
    ELSE IF s[i] = DQ THEN ParseStringBody(s, i + 1, <<>>)
    ELSE IF s[i] \in Digits THEN ParseNumber(s, i)
    ELSE IF s[i] = "n" THEN ParseLiteral(s, i, <<"n", "u", "l", "l">>, PyNone)
    ELSE IF s[i] = "t" THEN ParseLiteral(s, i, <<"t", "r", "u", "e">>, PyBool(TRUE))
    ELSE IF s[i] = "f" THEN ParseLiteral(s, i, <<"f", "a", "l", "s", "e">>, PyBool(FALSE))
    ELSE IF s[i] = "["
         THEN LET j == SkipWs(s, i + 1) IN
              IF j <= Len(s) /\ s[j] = "]" THEN ParseOk(PyList(<<>>), j + 1)
              ELSE ParseElements(s, j, <<>>)
    ELSE IF s[i] = "{"
         THEN LET j == SkipWs(s, i + 1) IN
              IF j <= Len(s) /\ s[j] = "}" THEN ParseOk(PyDict(<<>>), j + 1)
              ELSE ParseMembers(s, j, <<>>)
    ELSE ParseFail

\* json.loads(text): ok = FALSE when it raises JSONDecodeError
json_loads(text) ==
    LET r == ParseValue(text, SkipWs(text, 1)) IN
    IF r.ok /\ SkipWs(text, r.next) > Len(text) THEN r ELSE ParseFail

\* ------------------------------------------------------------------------
\* Literal text of diagram_service.py
\* ------------------------------------------------------------------------
Fence == <<BT, BT, BT>>
SufUser == <<" ", "U", "s", "e", "r">>
SufInterface == <<" ", "I", "n", "t", "e", "r", "f", "a", "c", "e">>
SufLayer == <<" ", "L", "a", "y", "e", "r">>
SufAPI == <<" ", "A", "P", "I">>
SufModule == <<" ", "M", "o", "d", "u", "l", "e">>
SufSystem == <<" ", "S", "y", "s", "t", "e", "m">>
Application == <<"A", "p", "p", "l", "i", "c", "a", "t", "i", "o", "n">>

MaxComponents == 6
MinLLMComponents == 3
MaxFallbackPages == 2
MinDiagramWidth == 20
BoxMargin == 4

\* ------------------------------------------------------------------------
\* extract_components_from_figma
\* ------------------------------------------------------------------------
\* pages: names of the CANVAS children of the document, '' when a child has no name
canvas_pages(figma_data) ==
    IF figma_data.has_document
    THEN LET canvases == SelectSeq(figma_data.children, LAMBDA c : c.type = "CANVAS")
         IN [i \in 1..Len(canvases) |-> canvases[i].name]
    ELSE <<>>

\* the cleaning of the model's reply before json.loads
clean_response(reply) ==
    LET stripped == Strip(reply) IN
    IF StartsWith(stripped, Fence)
    THEN LET lines == SplitLines(stripped)
         IN JoinLines(SubSeq(lines, 2, Len(lines) - 1))
    ELSE stripped

\* the test that lets the parsed reply be returned
accept_llm_components(components) ==
    components.t = "list" /\ Len(components.items) >= MinLLMComponents

\* variant: the parsed list is returned without the cut to 6
limit_components_uncut(items) == items

\* components[:6] on a parsed list
limit_components(items) == Take(items, MaxComponents)

\* what the LLM branch leaves behind: the cleaned response, the value bound to
\* `components` when control reaches the fallback, and whether it returned
llm_branch(llm_service) ==
    IF ~llm_service.attached \/ llm_service.raises
    THEN [returned |-> FALSE, response |-> <<>>, components |-> PyList(<<>>)]
    ELSE LET response == clean_response(llm_service.reply)
             parsed == json_loads(response)
         IN IF ~parsed.ok
            THEN [returned |-> FALSE, response |-> response, components |-> PyList(<<>>)]
            ELSE IF accept_llm_components(parsed.v)
            THEN [returned |-> TRUE, response |-> response,
                  components |-> PyList(limit_components(parsed.v.items))]
            ELSE [returned |-> FALSE, response |-> response, components |-> parsed.v]

page_labels(pages) ==
    LET firstPages == Take(pages, MaxFallbackPages)
        named == SelectSeq(firstPages, LAMBDA p : Strip(p) # <<>>)
    IN [i \in 1..Len(named) |-> PyStr(named[i] \o SufInterface)]

\* variant: the backend label is appended before the frontend label
fallback_labels_api_first(figma_data, ai_analysis) ==
    LET pages == canvas_pages(figma_data) IN
    (IF ai_analysis.application_type # <<>>
     THEN <<PyStr(ai_analysis.application_type \o SufUser)>> ELSE <<>>)
    \o page_labels(pages)
    \o (IF ai_analysis.backend # <<>>
        THEN <<PyStr(ai_analysis.backend[1] \o SufAPI)>> ELSE <<>>)
    \o (IF ai_analysis.frontend # <<>>
        THEN <<PyStr(ai_analysis.frontend[1] \o SufLayer)>> ELSE <<>>)
    \o (IF ai_analysis.database # <<>> /\ Strip(ai_analysis.database) # <<>>
        THEN <<PyStr(ai_analysis.database)>> ELSE <<>>)
    \o (IF ai_analysis.key_features # <<>> /\ Strip(ai_analysis.key_features[1]) # <<>>
        THEN <<PyStr(ai_analysis.key_features[1] \o SufModule)>> ELSE <<>>)

\* the labels the fallback appends, in the order it appends them
fallback_labels(figma_data, ai_analysis) ==
    LET pages == canvas_pages(figma_data) IN
    (IF ai_analysis.application_type # <<>>
     THEN <<PyStr(ai_analysis.application_type \o SufUser)>> ELSE <<>>)
    \o page_labels(pages)
    \o (IF ai_analysis.frontend # <<>>
        THEN <<PyStr(ai_analysis.frontend[1] \o SufLayer)>> ELSE <<>>)
    \o (IF ai_analysis.backend # <<>>
        THEN <<PyStr(ai_analysis.backend[1] \o SufAPI)>> ELSE <<>>)
    \o (IF ai_analysis.database # <<>> /\ Strip(ai_analysis.database) # <<>>
        THEN <<PyStr(ai_analysis.database)>> ELSE <<>>)
    \o (IF ai_analysis.key_features # <<>> /\ Strip(ai_analysis.key_features[1]) # <<>>
        THEN <<PyStr(ai_analysis.key_features[1] \o SufModule)>> ELSE <<>>)

\* variant: a whitespace-only project name counts as no project name
minimal_structure_stripped(project_name) ==
    IF Strip(project_name) # <<>>
    THEN PyList(<<PyStr(project_name \o SufSystem)>>)
    ELSE PyList(<<PyStr(Application)>>)

\* the minimal structure used when `components` is falsy
minimal_structure(project_name) ==
    IF project_name # <<>>
    THEN PyList(<<PyStr(project_name \o SufSystem)>>)
    ELSE PyList(<<PyStr(Application)>>)

Returned(v) == [raised |-> "", value |-> v]
Raised(e) == [raised |-> e, value |-> PyNone]

\* components[:6] on whatever `components` is bound to
final_slice(components) ==
    CASE components.t = "list" -> Returned(PyList(Take(components.items, MaxComponents)))
      [] components.t = "str" -> Returned(PyStr(Take(components.s, MaxComponents)))
      [] OTHER -> Raised("TypeError")

\* the fallback, run on the value `components` is bound to when it starts
fallback_from(components, figma_data, ai_analysis) ==
    LET labels == fallback_labels(figma_data, ai_analysis) IN
    IF labels # <<>> /\ components.t # "list"
    THEN Raised("AttributeError")
    ELSE LET appended == IF labels = <<>> THEN components
                         ELSE PyList(components.items \o labels)
         IN IF ~Truthy(appended)
            THEN final_slice(minimal_structure(figma_data.name))
            ELSE final_slice(appended)

extract_components_from_figma(figma_data, ai_analysis, llm_service) ==
    LET llm == llm_branch(llm_service) IN
    IF llm.returned THEN Returned(llm.components)
    ELSE fallback_from(llm.components, figma_data, ai_analysis)

\* ------------------------------------------------------------------------
\* The diagram layout engine
\* ------------------------------------------------------------------------
\* variant: the right padding repeats the left padding, losing the odd column
create_ascii_box_even_padding(text, width) ==
    LET w == Max(width, Len(text) + BoxMargin)
        padding == (w - 2 - Len(text)) \div 2
        padded_text == Rep(SP, padding) \o text \o Rep(SP, padding)
        border == <<"+">> \o Rep("-", w - 2) \o <<"+">>
    IN <<border, <<"|">> \o padded_text \o <<"|">>, border>>

create_ascii_box(text, width) ==
    LET w == Max(width, Len(text) + BoxMargin)
        padding == (w - 2 - Len(text)) \div 2
        padded_text == Rep(SP, padding) \o text \o Rep(SP, w - 2 - Len(text) - padding)
        border == <<"+">> \o Rep("-", w - 2) \o <<"+">>
    IN <<border, <<"|">> \o padded_text \o <<"|">>, border>>

\* variant: a caller's width below len(text) + 4 is not raised to that minimum
create_ascii_box_call_no_floor(text, width) ==
    IF ~width.given THEN create_ascii_box(text, Len(text) + BoxMargin)
    ELSE LET w == width.value
             padding == (w - 2 - Len(text)) \div 2
             padded_text == Rep(SP, padding) \o text \o Rep(SP, w - 2 - Len(text) - padding)
             border == <<"+">> \o Rep("-", w - 2) \o <<"+">>
         IN <<border, <<"|">> \o padded_text \o <<"|">>, border>>

\* create_ascii_box(text, width=None): the default of the width, then the box
create_ascii_box_call(text, width) ==
    create_ascii_box(text, IF width.given THEN width.value ELSE Len(text) + BoxMargin)

\* variant: the arrow is centered at width // 2
create_vertical_arrow_at_half(width) ==
    LET center == width \div 2
        spaces == Rep(SP, center)
    IN <<spaces \o <<"|">>, spaces \o <<"v">>>>

create_vertical_arrow(width) ==
    LET center == (width - 1) \div 2
        spaces == Rep(SP, center)
    IN <<spaces \o <<"|">>, spaces \o <<"v">>>>

\* the elements a for loop over `components` yields
iterate(components) ==
    IF components.t = "str"
    THEN [i \in 1..Len(components.s) |-> PyStr(<<components.s[i]>>)]
    ELSE components.items

RECURSIVE MaxLabelWidth(_)
MaxLabelWidth(labels) ==
    IF Len(labels) = 1 THEN Len(labels[1].s) + BoxMargin
    ELSE Max(Len(labels[1].s) + BoxMargin, MaxLabelWidth(Tail(labels)))

diagram_width(labels) == Max(MaxLabelWidth(labels), MinDiagramWidth)

\* variant: an arrow follows every box, the last one included
RECURSIVE diagram_lines_arrow_after_last(_, _, _)
diagram_lines_arrow_after_last(labels, i, max_width) ==
    IF i > Len(labels) THEN <<>>
    ELSE create_ascii_box(labels[i].s, max_width)
         \o create_vertical_arrow(max_width)
         \o diagram_lines_arrow_after_last(labels, i + 1, max_width)

RECURSIVE diagram_lines(_, _, _)
diagram_lines(labels, i, max_width) ==
    IF i > Len(labels) THEN <<>>
    ELSE create_ascii_box(labels[i].s, max_width)
         \o (IF i < Len(labels) THEN create_vertical_arrow(max_width) ELSE <<>>)
         \o diagram_lines(labels, i + 1, max_width)

create_box_diagram(components) ==
    LET labels == iterate(components) IN
    IF labels = <<>> THEN Raised("ValueError")
    ELSE IF \E i \in 1..Len(labels) : labels[i].t # "str" THEN Raised("TypeError")
    ELSE Returned(PyStr(JoinLines(diagram_lines(labels, 1, diagram_width(labels)))))

\* ------------------------------------------------------------------------
\* Inputs: design facts, analysis facts, language-model behaviours, label lists
\* ------------------------------------------------------------------------
MaxReplyItems == 7
MaxLabelLen == 17

Empty == <<>>
Blank == <<" ">>
Dashboard == <<"D", "a", "s", "h", "b", "o", "a", "r", "d">>
Shop == <<"S", "h", "o", "p">>
Home == <<"H", "o", "m", "e">>
Settings == <<"S", "e", "t", "t", "i", "n", "g", "s">>
Cart == <<"C", "a", "r", "t">>
React == <<"R", "e", "a", "c", "t">>
Vue == <<"V", "u", "e">>
Flask == <<"F", "l", "a", "s", "k">>
Node == <<"N", "o", "d", "e">>
Postgres == <<"P", "o", "s", "t", "g", "r", "e", "s">>
Login == <<"L", "o", "g", "i", "n">>
Search == <<"S", "e", "a", "r", "c", "h">>

Canvas(name) == [name |-> name, type |-> "CANVAS"]
Frame(name) == [name |-> name, type |-> "FRAME"]
ChildLists ==
    { <<>>,
      <<Canvas(Home)>>,
      <<Canvas(Home), Canvas(Settings)>>,
      <<Canvas(Blank), Canvas(Home), Canvas(Settings)>>,
      <<Canvas(Home), Frame(Cart), Canvas(Settings)>>,
      <<Canvas(Home), Canvas(Settings), Canvas(Cart)>>,
      <<Canvas(Empty), Canvas(Blank)>> }

FigmaData(name, has_document, children) ==
    [name |-> name, has_document |-> has_document, children |-> children]
FigmaInputs ==
    { FigmaData(n, TRUE, ch) : n \in {Empty, Blank, Shop}, ch \in ChildLists }
    \cup { FigmaData(n, FALSE, <<>>) : n \in {Empty, Blank, Shop} }

AIAnalysis(application_type, frontend, backend, database, key_features) ==
    [application_type |-> application_type, frontend |-> frontend, backend |-> backend,
     database |-> database, key_features |-> key_features]
AIInputs ==
    { AIAnalysis(a, f, b, d, k) :
        a \in {Empty, Blank, Dashboard},
        f \in {<<>>, <<Blank>>, <<React, Vue>>},
        b \in {<<>>, <<Blank>>, <<Flask, Node>>},
        d \in {Empty, Blank, Postgres},
        k \in {<<>>, <<Blank, Login>>, <<Login, Search>>} }

NoAnalysis == AIAnalysis(Empty, <<>>, <<>>, Empty, <<>>)
NoFigma == FigmaData(Empty, FALSE, <<>>)

\* the facts the language-model behaviours are combined with
LLMFacts ==
    { <<NoFigma, NoAnalysis>>,
      <<FigmaData(Shop, TRUE, <<>>), NoAnalysis>>,
      <<FigmaData(Shop, TRUE, <<Canvas(Home), Canvas(Settings)>>),
        AIAnalysis(Dashboard, <<>>, <<>>, Empty, <<>>)>>,
      <<FigmaData(Shop, TRUE, <<Canvas(Home), Canvas(Settings)>>),
        AIAnalysis(Dashboard, <<React>>, <<Flask>>, Postgres, <<Login>>)>> }

NoLLM == [attached |-> FALSE, raises |-> FALSE, reply |-> <<>>]
RaisingLLM == [attached |-> TRUE, raises |-> TRUE, reply |-> <<>>]
ReplyingLLM(reply) == [attached |-> TRUE, raises |-> FALSE, reply |-> reply]

\* JSON text of replies
DigitChar(i) == <<"0", "1", "2", "3", "4", "5", "6", "7", "8", "9">>[i + 1]
ItemName(i) == <<"C", DigitChar(i)>>
JsonStr(s) == <<DQ>> \o s \o <<DQ>>
RECURSIVE JsonElements(_, _)
JsonElements(elems, sep) ==
    IF elems = <<>> THEN <<>>
    ELSE IF Len(elems) = 1 THEN elems[1]
    ELSE elems[1] \o sep \o JsonElements(Tail(elems), sep)
JsonArray(elems) == <<"[">> \o JsonElements(elems, <<",", " ">>) \o <<"]">>
NameArray(k) == JsonArray([i \in 1..k |-> JsonStr(ItemName(i))])
JsonTag == <<"j", "s", "o", "n">>

ListReplies == { NameArray(k) : k \in 0..MaxReplyItems }
FencedReplies ==
    { Fence \o tag \o <<NL>> \o NameArray(k) \o <<NL>> \o Fence :
        tag \in {<<>>, JsonTag}, k \in {2, 4} }
    \cup { \* the array spread over several lines inside the fence
           Fence \o JsonTag \o <<NL, "[", NL>>
             \o JsonElements(<<JsonStr(ItemName(1)), JsonStr(ItemName(2)),
                               JsonStr(ItemName(3))>>, <<",", NL>>)
             \o <<NL, "]", NL>> \o Fence }
BrokenFenceReplies ==
    { Fence \o JsonTag \o <<NL>> \o NameArray(4),           \* no closing fence
      Fence \o NameArray(3) \o Fence,                        \* all on one line
      Fence \o JsonTag }                                     \* nothing but a fence
PaddedReplies == { <<SP, NL>> \o NameArray(3) \o <<NL, SP>> }
MixedReplies ==
    { JsonArray(<<<<"1">>, <<"2">>, <<"3">>>>),
      JsonArray(<<JsonStr(ItemName(1)), <<"n", "u", "l", "l">>, <<"4", "2">>, <<"{", "}">>>>),
      JsonArray(<<<<"1">>, JsonStr(ItemName(2))>>) }
NonListReplies ==
    { <<"4", "2">>, <<"0">>, <<"n", "u", "l", "l">>, <<"t", "r", "u", "e">>,
      JsonStr(ItemName(1) \o ItemName(2) \o ItemName(3) \o ItemName(4)),
      JsonStr(<<>>), <<"{", "}">>,
      <<"{">> \o JsonStr(<<"a">>) \o <<":", " ", "1">> \o <<"}">> }
GarbageReplies ==
    { <<>>,
      <<"S", "u", "r", "e", ":", " ">> \o NameArray(3),
      <<"[">> \o JsonStr(ItemName(1)) \o <<",">>,
      <<"[">> \o JsonStr(ItemName(1)) \o <<",", "]">> }
Replies ==
    ListReplies \cup FencedReplies \cup BrokenFenceReplies \cup PaddedReplies
    \cup MixedReplies \cup NonListReplies \cup GarbageReplies
LLMBehaviours == {RaisingLLM} \cup { ReplyingLLM(r) : r \in Replies }

\* label lists handed to create_box_diagram directly
LabelLens == {0, 16, MaxLabelLen}
Labels == { PyStr(Rep("x", k)) : k \in LabelLens }
LabelLists == UNION { [1..n -> Labels] : n \in 0..MaxComponents }

\* ------------------------------------------------------------------------
\* State
\* ------------------------------------------------------------------------
VARIABLES
    entry,          \* the public method called
    pc,             \* where the call is
    figma_data,     \* argument: the facts of the design file
    ai_analysis,    \* argument: the facts of the AI analysis
    llm_service,    \* self.llm_service and how it behaves when called
    response,       \* the local `response` as handed to json.loads
    components,     \* the label list: extract's result, create_box_diagram's argument
    raised,         \* the exception that reached the caller, "" for none
    diagram         \* the diagram string returned

vars == <<entry, pc, figma_data, ai_analysis, llm_service, response, components,
          raised, diagram>>

\* a direct call of create_ascii_box(text, width)
VARIABLES
    box_pc,         \* "call" before the call, "returned" after it
    box_text,       \* argument: the text
    box_width,      \* argument: the width, or not given (None)
    box_lines       \* the list of lines returned

boxVars == <<box_pc, box_text, box_width, box_lines>>

NoWidth == [given |-> FALSE, value |-> 0]
Width(w) == [given |-> TRUE, value |-> w]

BoxIdle ==
    box_pc = "idle" /\ box_text = <<>> /\ box_width = NoWidth /\ box_lines = <<>>

\* no call of DiagramService.generate_ascii_diagram or create_box_diagram under way
DiagramIdle ==
    /\ entry = "idle" /\ pc = "idle"
    /\ figma_data = NoFigma /\ ai_analysis = NoAnalysis /\ llm_service = NoLLM
    /\ response = <<>> /\ components = PyList(<<>>) /\ raised = "" /\ diagram = <<>>

\* a call of PDFService.generate_step_by_step_flow(features)
VARIABLES
    flow_pc,        \* "call" before the call, "returned" after it
    features,       \* argument: the feature names
    steps           \* the list of step descriptions returned

flowVars == <<flow_pc, features, steps>>

FlowIdle == flow_pc = "idle" /\ features = <<>> /\ steps = <<>>

\* a call of one of the static tree methods of FigmaService
VARIABLES
    fig_pc,         \* "call" before the call, then "returned" or "raised"
    fig_call,       \* the method called
    node,           \* argument: the node (the document) the walk starts at
    level,          \* argument of get_project_structure
    fonts,          \* result of extract_fonts
    texts,          \* result of extract_texts
    structure,      \* result of get_project_structure
    feature_list,   \* result of get_features
    fig_raised      \* the exception that left the method, "" when none

figVars == <<fig_pc, fig_call, node, level, fonts, texts, structure, feature_list, fig_raised>>

NoNode ==
    [keys |-> {}, name |-> <<>>, type |-> <<>>, characters |-> <<>>,
     style |-> [keys |-> {}, fontFamily |-> <<>>], children |-> <<>>]

FigIdle ==
    /\ fig_pc = "idle" /\ fig_call = "" /\ node = NoNode /\ level = 0
    /\ fonts = {} /\ texts = <<>> /\ structure = <<>> /\ feature_list = <<>>
    /\ fig_raised = ""

\* a request to generate_pdf of main.py, from the fetched design file on
VARIABLES
    req_pc,             \* where the handler is
    req_figma,          \* the design file fetched: document, components, styles
    report_data,        \* the uploaded report: "none" or "uploaded"
    groq_api_key,       \* GROQ_API_KEY is set in the environment
    huggingface_api_key,\* HUGGINGFACE_API_KEY is set in the environment
    facts,              \* fonts, texts, components, styles once extracted
    attempted,          \* the providers asked for an analysis, in order
    ai_provider,        \* the provider whose analysis is used, "" when none
    diagram_llm,        \* the provider of the llm_service given to DiagramService
    built,              \* the calls of the report builders, in order
    req_status          \* 0 while running, then the HTTP status of the response

reqVars ==
    <<req_pc, req_figma, report_data, groq_api_key, huggingface_api_key, facts,
      attempted, ai_provider, diagram_llm, built, req_status>>

NoFacts == [bound |-> FALSE, fonts |-> {}, texts |-> <<>>, components |-> <<>>, styles |-> <<>>]

NoDesignFile ==
    [has_document |-> FALSE, document |-> NoNode,
     has_components |-> FALSE, components |-> <<>>,
     has_styles |-> FALSE, styles |-> <<>>]

ReqIdle ==
    /\ req_pc = "idle" /\ req_figma = NoDesignFile /\ report_data = "none"
    /\ groq_api_key = FALSE /\ huggingface_api_key = FALSE /\ facts = NoFacts
    /\ attempted = <<>> /\ ai_provider = "" /\ diagram_llm = "" /\ built = <<>>
    /\ req_status = 0

\* two invocations of the report builders writing their files
VARIABLES
    clock,          \* the time, in ticks
    calls,          \* per invocation: the builder, where it is, timestamp, pdf_path
    files,          \* the files written: path and the invocation that wrote it
    saves           \* the invocations in the order they saved

pathVars == <<clock, calls, files, saves>>

PathIdle == clock = 0 /\ calls = <<>> /\ files = {} /\ saves = <<>>

\* a call of PDFService.generate_enhanced_pdf, up to the story it builds
VARIABLES
    enh_pc,         \* "call" before the call, "built" after it
    enh_facts,      \* arguments: the design's name, fonts, components, styles
    gemini_analysis,\* argument: the analysis
    ascii_diagram,  \* argument: the diagram, or not given / None
    story           \* the flowables handed to doc.build

enhVars == <<enh_pc, enh_facts, gemini_analysis, ascii_diagram, story>>

EnhancedIdle ==
    /\ enh_pc = "idle" /\ enh_facts = <<>> /\ gemini_analysis = <<>>
    /\ ascii_diagram = <<>> /\ story = <<>>

\* a call of PDFService.generate_pdf, up to what it draws on the canvas
VARIABLES
    pdf_pc,         \* "call" before the call, "saved" after it
    pdf_args,       \* the arguments of the call
    drawn           \* the canvas operations, in order

pdfVars == <<pdf_pc, pdf_args, drawn>>

PdfIdle == pdf_pc = "idle" /\ pdf_args = <<>> /\ drawn = <<>>

\* the state outside each part of the program, which that part leaves alone
OutsideDiagram == <<boxVars, flowVars, figVars, reqVars, pathVars, enhVars, pdfVars>>
OutsideBox == <<vars, flowVars, figVars, reqVars, pathVars, enhVars, pdfVars>>
OutsideFlow == <<vars, boxVars, figVars, reqVars, pathVars, enhVars, pdfVars>>
OutsideFig == <<vars, boxVars, flowVars, reqVars, pathVars, enhVars, pdfVars>>
OutsideReq == <<vars, boxVars, flowVars, figVars, pathVars, enhVars, pdfVars>>
OutsidePath == <<vars, boxVars, flowVars, figVars, reqVars, enhVars, pdfVars>>
OutsideEnhanced == <<vars, boxVars, flowVars, figVars, reqVars, pathVars, pdfVars>>
OutsidePdf == <<vars, boxVars, flowVars, figVars, reqVars, pathVars, enhVars>>
OutsideDiagramIdle ==
    BoxIdle /\ FlowIdle /\ FigIdle /\ ReqIdle /\ PathIdle /\ EnhancedIdle /\ PdfIdle
OutsideBoxIdle ==
    DiagramIdle /\ FlowIdle /\ FigIdle /\ ReqIdle /\ PathIdle /\ EnhancedIdle /\ PdfIdle
OutsideFlowIdle ==
    DiagramIdle /\ BoxIdle /\ FigIdle /\ ReqIdle /\ PathIdle /\ EnhancedIdle /\ PdfIdle
OutsideFigIdle ==
    DiagramIdle /\ BoxIdle /\ FlowIdle /\ ReqIdle /\ PathIdle /\ EnhancedIdle /\ PdfIdle
OutsideReqIdle ==
    DiagramIdle /\ BoxIdle /\ FlowIdle /\ FigIdle /\ PathIdle /\ EnhancedIdle /\ PdfIdle
OutsidePathIdle ==
    DiagramIdle /\ BoxIdle /\ FlowIdle /\ FigIdle /\ ReqIdle /\ EnhancedIdle /\ PdfIdle
OutsideEnhancedIdle ==
    DiagramIdle /\ BoxIdle /\ FlowIdle /\ FigIdle /\ ReqIdle /\ PathIdle /\ PdfIdle
OutsidePdfIdle ==
    DiagramIdle /\ BoxIdle /\ FlowIdle /\ FigIdle /\ ReqIdle /\ PathIdle /\ EnhancedIdle

InitGenerate ==
    /\ entry = "generate_ascii_diagram"
    /\ pc = "extract_components_from_figma"
    /\ \/ /\ llm_service = NoLLM
          /\ figma_data \in FigmaInputs
          /\ ai_analysis \in AIInputs
       \/ /\ llm_service \in LLMBehaviours
          /\ \E f \in LLMFacts : figma_data = f[1] /\ ai_analysis = f[2]
    /\ components = PyList(<<>>)

InitDirect ==
    /\ entry = "create_box_diagram"
    /\ pc = "create_box_diagram"
    /\ llm_service = NoLLM
    /\ figma_data = NoFigma
    /\ ai_analysis = NoAnalysis
    /\ components \in { PyList(l) : l \in LabelLists }

Init ==
    /\ InitGenerate \/ InitDirect
    /\ response = <<>>
    /\ raised = ""
    /\ diagram = <<>>
    /\ OutsideDiagramIdle

\* generate_ascii_diagram, line 177: components = extract_components_from_figma(...)
ExtractComponents ==
    /\ pc = "extract_components_from_figma"
    /\ LET r == extract_components_from_figma(figma_data, ai_analysis, llm_service) IN
       /\ response' = llm_branch(llm_service).response
       /\ raised' = r.raised
       /\ components' = r.value
       /\ pc' = IF r.raised = "" THEN "create_box_diagram" ELSE "extract_raised"
    /\ UNCHANGED <<entry, figma_data, ai_analysis, llm_service, diagram>>
    /\ UNCHANGED OutsideDiagram

\* create_box_diagram(components), called directly or from line 180
CreateBoxDiagram ==
    /\ pc = "create_box_diagram"
    /\ LET r == create_box_diagram(components) IN
       /\ raised' = r.raised
       /\ diagram' = IF r.raised = "" THEN r.value.s ELSE <<>>
       /\ pc' = IF r.raised = "" THEN "returned" ELSE "diagram_raised"
    /\ UNCHANGED <<entry, figma_data, ai_analysis, llm_service, response, components>>
    /\ UNCHANGED OutsideDiagram

Next == ExtractComponents \/ CreateBoxDiagram

Spec == Init /\ [][Next]_vars

\* ------------------------------------------------------------------------
\* Properties of extract_components_from_figma
\* ------------------------------------------------------------------------
Generating == entry = "generate_ascii_diagram"
ExtractDone == Generating /\ pc # "extract_components_from_figma"
ExtractReturned == ExtractDone /\ pc # "extract_raised"
Replied == llm_service.attached /\ ~llm_service.raises
TextsOf(items) == [i \in 1..Len(items) |-> items[i].s]
IsBlank(s) == Strip(s) = <<>>

\* json.loads refuses the response, or gives a non-list, or a list of fewer than 3
ResponseRejected ==
    LET p == json_loads(response) IN
    ~p.ok \/ p.v.t # "list" \/ Len(p.v.items) < 3

\* C1: with a language model attached, a rejected response gives exactly the
\* label list the fallback computes for the same facts with no model attached.
C1_RejectedGivesFallback ==
    (ExtractDone /\ Replied /\ ResponseRejected)
        => /\ pc # "extract_raised"
           /\ components = extract_components_from_figma(figma_data, ai_analysis, NoLLM).value

\* C2: whatever the language model does, generate_ascii_diagram returns a
\* diagram and no exception reaches its caller.
C2_NoExceptionReachesCaller ==
    (Generating /\ llm_service.attached)
        => pc \notin {"extract_raised", "diagram_raised"}

\* C3: extract_components_from_figma always returns a sequence of 1 to 6 labels.
C3_BetweenOneAndSixLabels ==
    ExtractDone
        => /\ pc # "extract_raised"
           /\ components.t = "list"
           /\ Len(components.items) \in 1..6

\* C4: a response that parses as a JSON list of n >= 3 items is returned as its
\* first min(n, 6) items, in order and unchanged, whatever the facts are.
C4_AcceptedListVerbatim ==
    (ExtractDone /\ Replied)
        => LET p == json_loads(response)
               q == json_loads(llm_service.reply)
           IN /\ (p.ok /\ p.v.t = "list" /\ Len(p.v.items) >= 3)
                    => /\ pc # "extract_raised"
                       /\ components =
                            PyList(SubSeq(p.v.items, 1, Min(Len(p.v.items), 6)))
              /\ (~StartsWith(Strip(llm_service.reply), Fence)
                    /\ q.ok /\ q.v.t = "list" /\ Len(q.v.items) >= 3)
                    => /\ pc # "extract_raised"
                       /\ components =
                            PyList(SubSeq(q.v.items, 1, Min(Len(q.v.items), 6)))

C4_Witness ==
    /\ pc = "returned" /\ Generating /\ Replied
    /\ ~StartsWith(Strip(llm_service.reply), Fence)
    /\ LET q == json_loads(llm_service.reply) IN
         q.ok /\ q.v.t = "list" /\ Len(q.v.items) > 6
    /\ Len(components.items) = 6
    /\ ai_analysis.application_type # <<>>

\* a line that is only a fence marker: three backticks and an optional language tag
TagChars == {"j", "s", "o", "n"}
IsFenceLine(line) ==
    StartsWith(line, Fence) /\ \A i \in 4..Len(line) : line[i] \in TagChars

\* C5: unwrapping removes at most the first and the last line, and a line only
\* if it is a fence marker line; a response that does not start with a fence
\* passes through unchanged.
C5_OnlyFenceLinesRemoved ==
    (ExtractDone /\ Replied)
        => LET stripped == Strip(llm_service.reply)
               lines == SplitLines(stripped)
               n == Len(lines)
               first == IF IsFenceLine(lines[1]) THEN 2 ELSE 1
               last == IF n >= 2 /\ IsFenceLine(lines[n]) THEN n - 1 ELSE n
           IN response = IF StartsWith(stripped, Fence)
                         THEN JoinLines(SubSeq(lines, first, last))
                         ELSE stripped

\* ------------------------------------------------------------------------
\* Properties of the fallback (no language model attached)
\* ------------------------------------------------------------------------
FallbackDone == ExtractDone /\ ~llm_service.attached

RECURSIVE IsSubsequence(_, _)
IsSubsequence(a, b) ==
    IF a = <<>> THEN TRUE
    ELSE IF b = <<>> THEN FALSE
    ELSE IF Head(a) = Head(b) THEN IsSubsequence(Tail(a), Tail(b))
    ELSE IsSubsequence(a, Tail(b))

InSeq(x, seq) == \E i \in 1..Len(seq) : seq[i] = x

\* every label the composition can make from the facts, in the documented order
CanonicalOrder ==
    LET pages == canvas_pages(figma_data) IN
    <<ai_analysis.application_type \o SufUser>>
    \o [i \in 1..Len(pages) |-> pages[i] \o SufInterface]
    \o (IF ai_analysis.frontend = <<>> THEN <<>>
        ELSE <<ai_analysis.frontend[1] \o SufLayer>>)
    \o (IF ai_analysis.backend = <<>> THEN <<>>
        ELSE <<ai_analysis.backend[1] \o SufAPI>>)
    \o <<ai_analysis.database>>
    \o (IF ai_analysis.key_features = <<>> THEN <<>>
        ELSE <<ai_analysis.key_features[1] \o SufModule>>)

MinimalResults == { <<figma_data.name \o SufSystem>>, <<Application>> }

\* C6: the fallback's labels keep the order User, page Interfaces in document
\* order, Layer, API, database, Module; every non-blank fact ahead of the cut
\* is present; the result is cut to 6; and the Dashboard example gives exactly
\* its three labels.
C6_FallbackOrder ==
    FallbackDone
        => LET labels == TextsOf(components.items)
               pages == canvas_pages(figma_data)
               a == ai_analysis
           IN /\ pc # "extract_raised" /\ components.t = "list"
              /\ Len(labels) <= 6
              /\ labels \in MinimalResults \/ IsSubsequence(labels, CanonicalOrder)
              /\ ~IsBlank(a.application_type)
                    => labels[1] = a.application_type \o SufUser
              /\ (pages # <<>> /\ ~IsBlank(pages[1]))
                    => InSeq(pages[1] \o SufInterface, labels)
              /\ (a.frontend # <<>> /\ ~IsBlank(a.frontend[1]))
                    => InSeq(a.frontend[1] \o SufLayer, labels)
              /\ (a.backend # <<>> /\ ~IsBlank(a.backend[1]))
                    => InSeq(a.backend[1] \o SufAPI, labels)
              /\ ~IsBlank(a.database) => InSeq(a.database, labels)
              /\ (a.key_features # <<>> /\ ~IsBlank(a.key_features[1]))
                    => \/ labels[Len(labels)] = a.key_features[1] \o SufModule
                       \/ Len(labels) = 6
              /\ (a = AIAnalysis(Dashboard, <<>>, <<>>, Empty, <<>>)
                    /\ pages = <<Home, Settings>>)
                    => labels = <<Dashboard \o SufUser, Home \o SufInterface,
                                  Settings \o SufInterface>>

C6_Witness ==
    /\ FallbackDone /\ pc = "returned"
    /\ ai_analysis = AIAnalysis(Dashboard, <<React, Vue>>, <<Flask, Node>>, Postgres,
                                <<Login, Search>>)
    /\ canvas_pages(figma_data) = <<Home, Settings>>
    /\ TextsOf(components.items) =
         <<Dashboard \o SufUser, Home \o SufInterface, Settings \o SufInterface,
           React \o SufLayer, Flask \o SufAPI, Postgres>>

AllFactsBlank ==
    /\ IsBlank(figma_data.name)
    /\ IsBlank(ai_analysis.application_type)
    /\ \A i \in 1..Len(canvas_pages(figma_data)) : IsBlank(canvas_pages(figma_data)[i])
    /\ \A i \in 1..Len(ai_analysis.frontend) : IsBlank(ai_analysis.frontend[i])
    /\ \A i \in 1..Len(ai_analysis.backend) : IsBlank(ai_analysis.backend[i])
    /\ IsBlank(ai_analysis.database)
    /\ \A i \in 1..Len(ai_analysis.key_features) : IsBlank(ai_analysis.key_features[i])

\* C7: with no language model and every fact empty or whitespace-only the
\* result is exactly ['Application'].
C7_AllBlankGivesApplication ==
    (FallbackDone /\ AllFactsBlank)
        => pc # "extract_raised" /\ components = PyList(<<PyStr(Application)>>)

\* C8: with no language model, when the composition contributes no label the
\* result is ['<projectName> System'] for a non-empty project name and
\* ['Application'] otherwise.
C8_MinimalStructure ==
    (FallbackDone /\ fallback_labels(figma_data, ai_analysis) = <<>>)
        => /\ pc # "extract_raised"
           /\ components =
                IF figma_data.name # <<>>
                THEN PyList(<<PyStr(figma_data.name \o SufSystem)>>)
                ELSE PyList(<<PyStr(Application)>>)

C8_Witness ==
    /\ FallbackDone /\ pc = "returned"
    /\ figma_data.name = Blank
    /\ canvas_pages(figma_data) = <<Empty, Blank>>
    /\ ai_analysis.key_features = <<Blank, Login>>
    /\ components = PyList(<<PyStr(Blank \o SufSystem)>>)

\* ------------------------------------------------------------------------
\* Properties of create_box_diagram
\* ------------------------------------------------------------------------
DiagramReturned ==
    pc = "returned" /\ components.t = "list" /\ Len(components.items) \in 1..6

SetMax(S) == CHOOSE m \in S : \A y \in S : y <= m
UniformWidth ==
    SetMax({20} \cup { Len(components.items[i].s) + 4 : i \in 1..Len(components.items) })

\* C9: for a label list of length n in 1..6 the diagram has 3n + 2(n-1) lines.
C9_LineCount ==
    DiagramReturned
        => Len(SplitLines(diagram)) =
             3 * Len(components.items) + 2 * (Len(components.items) - 1)

C9_Witness ==
    /\ DiagramReturned /\ entry = "create_box_diagram"
    /\ Len(components.items) = 6
    /\ Len(SplitLines(diagram)) = 28
    /\ \E i \in 1..6 : Len(components.items[i].s) > 16

\* C10 as stated: every line of the diagram, arrow lines included, is as long
\* as the uniform width max(20, max(len(label) + 4)).
C10_EveryLineUniform ==
    DiagramReturned
        => LET lines == SplitLines(diagram)
               width == UniformWidth
           IN \A k \in 1..Len(lines) : Len(lines[k]) = width

\* C10 amended: the three lines of every box are as long as the uniform width;
\* the two lines of every arrow are (width - 1) \div 2 + 1 long.
C10_BoxLinesUniform ==
    DiagramReturned
        => LET lines == SplitLines(diagram)
               width == UniformWidth
           IN \A k \in 1..Len(lines) :
                 Len(lines[k]) = IF (k - 1) % 5 < 3 THEN width
                                 ELSE (width - 1) \div 2 + 1

C10_Witness ==
    /\ DiagramReturned
    /\ Len(components.items) >= 2
    /\ UniformWidth = 21
    /\ \E i \in 1..Len(components.items) : Len(components.items[i].s) = 16
    /\ Len(SplitLines(diagram)[4]) = 11

\* C11: the boxes appear in the order of the labels, three consecutive lines
\* each; between two consecutive boxes there is exactly one arrow of two lines,
\* '|' then 'v', each after (width - 1) \div 2 spaces; no arrow precedes the
\* first box or follows the last.
IsLabelLine(line, label) ==
    \E l \in 0..Len(line) :
        line = <<"|">> \o Rep(SP, l) \o label \o Rep(SP, Len(line) - 2 - Len(label) - l)
               \o <<"|">>
IsBorderLine(line) ==
    /\ Len(line) >= 2 /\ line[1] = "+" /\ line[Len(line)] = "+"
    /\ \A k \in 2..(Len(line) - 1) : line[k] = "-"

C11_BoxesInOrderWithArrowsBetween ==
    DiagramReturned
        => LET lines == SplitLines(diagram)
               labels == components.items
               n == Len(labels)
               indent == Rep(SP, (UniformWidth - 1) \div 2)
           IN /\ Len(lines) = 5 * n - 2
              /\ \A i \in 1..n :
                    /\ IsBorderLine(lines[5 * i - 4])
                    /\ IsLabelLine(lines[5 * i - 3], labels[i].s)
                    /\ IsBorderLine(lines[5 * i - 2])
              /\ \A i \in 1..(n - 1) :
                    /\ lines[5 * i - 1] = indent \o <<"|">>
                    /\ lines[5 * i] = indent \o <<"v">>

C11_Witness ==
    /\ DiagramReturned /\ entry = "create_box_diagram"
    /\ Len(components.items) = 3
    /\ Len(components.items[1].s) = 16 /\ Len(components.items[2].s) = 0
    /\ Len(components.items[3].s) > 16
    /\ Len(SplitLines(diagram)) = 13

\* C12: create_box_diagram called with an empty label list returns a defined
\* result and raises nothing.
C12_EmptyListDegrades ==
    (entry = "create_box_diagram" /\ components.items = <<>> /\ pc # "create_box_diagram")
        => pc = "returned" /\ raised = ""

\* ------------------------------------------------------------------------
\* create_ascii_box called directly
\* ------------------------------------------------------------------------
MaxBoxText == 5
MaxBoxWidth == 12
BoxTexts == { Rep("x", k) : k \in 0..MaxBoxText } \cup { <<"O", "K">>, <<"A">> }
BoxWidths == {NoWidth} \cup { Width(w) : w \in 0..MaxBoxWidth }

InitBox ==
    /\ box_pc = "call"
    /\ box_text \in BoxTexts
    /\ box_width \in BoxWidths
    /\ box_lines = <<>>
    /\ OutsideBoxIdle

CreateAsciiBox ==
    /\ box_pc = "call"
    /\ box_lines' = create_ascii_box_call(box_text, box_width)
    /\ box_pc' = "returned"
    /\ UNCHANGED <<box_text, box_width>>
    /\ UNCHANGED OutsideBox

NextBox == CreateAsciiBox

SpecBox == InitBox /\ [][NextBox]_boxVars

\* C13: create_ascii_box gives three lines of length W = max(width, len + 4)
\* (len + 4 when no width is given): borders '+', W - 2 dashes, '+'; the middle
\* '|', L spaces, the text, R spaces, '|' with L = (W - 2 - len) \div 2 and
\* R = W - 2 - len - L, so R is L or L + 1.
C13_BoxShape ==
    box_pc = "returned"
        => LET len == Len(box_text)
               W == IF box_width.given /\ box_width.value > len + 4
                    THEN box_width.value ELSE len + 4
               L == (W - 2 - len) \div 2
               R == W - 2 - len - L
               mid == box_lines[2]
           IN /\ Len(box_lines) = 3
              /\ \A k \in 1..3 : Len(box_lines[k]) = W
              /\ IsBorderLine(box_lines[1]) /\ IsBorderLine(box_lines[3])
              /\ mid[1] = "|" /\ mid[W] = "|"
              /\ \A k \in 2..(L + 1) : mid[k] = SP
              /\ SubSeq(mid, L + 2, L + 1 + len) = box_text
              /\ \A k \in (L + 2 + len)..(W - 1) : mid[k] = SP
              /\ R \in {L, L + 1}
              /\ (box_text = <<"O", "K">> /\ box_width = Width(10))
                    => box_lines = << <<"+">> \o Rep("-", 8) \o <<"+">>,
                                      <<"|", " ", " ", " ", "O", "K", " ", " ", " ", "|">>,
                                      <<"+">> \o Rep("-", 8) \o <<"+">> >>

C13_Witness ==
    /\ box_pc = "returned"
    /\ box_text = <<"A">> /\ box_width = Width(8)
    /\ box_lines[2] = <<"|", " ", " ", "A", " ", " ", " ", "|">>

\* ------------------------------------------------------------------------
\* PDFService.generate_step_by_step_flow (pdf_service.py)
\* ------------------------------------------------------------------------
StepSetup1 ==
    <<"S", "t", "e", "p", " ", "1", ":", " ", "S", "e", "t", " ", "u", "p", " ", "t", "h", "e", " ", "d", "e", "v", "e", "l", "o", "p", "m", "e", "n", "t", " ", "e", "n", "v", "i", "r", "o", "n", "m", "e", "n", "t", " ", "-", " ", "I", "n", "s", "t", "a", "l", "l", " ", "P", "y", "t", "h", "o", "n", ",", " ", "r", "e", "q", "u", "i", "r", "e", "d", " ", "l", "i", "b", "r", "a", "r", "i", "e", "s", " ", "(", "S", "t", "r", "e", "a", "m", "l", "i", "t", ",", " ", "F", "a", "s", "t", "A", "P", "I", ",", " ", "S", "Q", "L", "A", "l", "c", "h", "e", "m", "y", ",", " ", "e", "t", "c", ".", ")", ".">>
StepSetup2 ==
    <<"S", "t", "e", "p", " ", "2", ":", " ", "I", "n", "i", "t", "i", "a", "l", "i", "z", "e", " ", "t", "h", "e", " ", "p", "r", "o", "j", "e", "c", "t", " ", "s", "t", "r", "u", "c", "t", "u", "r", "e", " ", "-", " ", "C", "r", "e", "a", "t", "e", " ", "d", "i", "r", "e", "c", "t", "o", "r", "i", "e", "s", " ", "f", "o", "r", " ", "f", "r", "o", "n", "t", "e", "n", "d", " ", "(", "S", "t", "r", "e", "a", "m", "l", "i", "t", " ", "a", "p", "p", ")", " ", "a", "n", "d", " ", "b", "a", "c", "k", "e", "n", "d", " ", "(", "F", "a", "s", "t", "A", "P", "I", " ", "s", "e", "r", "v", "e", "r", ")", ".">>
StepWord ==
    <<"S", "t", "e", "p", " ">>
FrontendHead ==
    <<":", " ", "I", "m", "p", "l", "e", "m", "e", "n", "t", " ", "t", "h", "e", " ", "'">>
FrontendTail ==
    <<"'", " ", "f", "e", "a", "t", "u", "r", "e", " ", "i", "n", " ", "t", "h", "e", " ", "f", "r", "o", "n", "t", "e", "n", "d", " ", "u", "s", "i", "n", "g", " ", "S", "t", "r", "e", "a", "m", "l", "i", "t", " ", "c", "o", "m", "p", "o", "n", "e", "n", "t", "s", " ", "(", "e", ".", "g", ".", ",", " ", "b", "u", "t", "t", "o", "n", "s", ",", " ", "f", "o", "r", "m", "s", " ", "b", "a", "s", "e", "d", " ", "o", "n", " ", "F", "i", "g", "m", "a", " ", "d", "e", "s", "i", "g", "n", ")", ".">>
BackendHead ==
    <<".", "1", ":", " ", "A", "d", "d", " ", "c", "o", "r", "r", "e", "s", "p", "o", "n", "d", "i", "n", "g", " ", "b", "a", "c", "k", "e", "n", "d", " ", "e", "n", "d", "p", "o", "i", "n", "t", "s", " ", "i", "n", " ", "F", "a", "s", "t", "A", "P", "I", " ", "f", "o", "r", " ", "'">>
BackendTail ==
    <<"'", " ", "(", "e", ".", "g", ".", ",", " ", "A", "P", "I", " ", "r", "o", "u", "t", "e", "s", " ", "f", "o", "r", " ", "d", "a", "t", "a", " ", "h", "a", "n", "d", "l", "i", "n", "g", ")", ".">>
StepClose1 ==
    <<"S", "t", "e", "p", " ", "N", ":", " ", "I", "n", "t", "e", "g", "r", "a", "t", "e", " ", "f", "r", "o", "n", "t", "e", "n", "d", " ", "w", "i", "t", "h", " ", "b", "a", "c", "k", "e", "n", "d", " ", "v", "i", "a", " ", "A", "P", "I", " ", "c", "a", "l", "l", "s", ".">>
StepClose2 ==
    <<"S", "t", "e", "p", " ", "N", "+", "1", ":", " ", "S", "e", "t", " ", "u", "p", " ", "d", "a", "t", "a", "b", "a", "s", "e", " ", "(", "S", "Q", "L", "i", "t", "e", ")", " ", "a", "n", "d", " ", "c", "o", "n", "n", "e", "c", "t", " ", "t", "o", " ", "b", "a", "c", "k", "e", "n", "d", ".">>
StepClose3 ==
    <<"S", "t", "e", "p", " ", "N", "+", "2", ":", " ", "T", "e", "s", "t", " ", "t", "h", "e", " ", "a", "p", "p", "l", "i", "c", "a", "t", "i", "o", "n", " ", "e", "n", "d", "-", "t", "o", "-", "e", "n", "d", ".">>
StepClose4 ==
    <<"S", "t", "e", "p", " ", "N", "+", "3", ":", " ", "D", "e", "p", "l", "o", "y", " ", "t", "h", "e", " ", "a", "p", "p", "l", "i", "c", "a", "t", "i", "o", "n", " ", "(", "e", ".", "g", ".", ",", " ", "t", "o", " ", "H", "e", "r", "o", "k", "u", " ", "o", "r", " ", "V", "e", "r", "c", "e", "l", ")", ".">>

FirstFeatureStep == 3

\* str(n) for n >= 0, as an f-string formats an int
RECURSIVE IntText(_)
IntText(n) ==
    IF n < 10 THEN <<DigitChar(n)>> ELSE IntText(n \div 10) \o <<DigitChar(n % 10)>>

\* variant: the sub-step takes a number of its own
RECURSIVE feature_steps_substep_counts(_, _)
feature_steps_substep_counts(feats, i) ==
    IF feats = <<>> THEN <<>>
    ELSE << StepWord \o IntText(i) \o FrontendHead \o Head(feats) \o FrontendTail,
            StepWord \o IntText(i + 1) \o BackendHead \o Head(feats) \o BackendTail >>
         \o feature_steps_substep_counts(Tail(feats), i + 2)

\* the loop over enumerate(features, start=i): two steps per feature
RECURSIVE feature_steps(_, _)
feature_steps(feats, i) ==
    IF feats = <<>> THEN <<>>
    ELSE << StepWord \o IntText(i) \o FrontendHead \o Head(feats) \o FrontendTail,
            StepWord \o IntText(i) \o BackendHead \o Head(feats) \o BackendTail >>
         \o feature_steps(Tail(feats), i + 1)

generate_step_by_step_flow(feats) ==
    <<StepSetup1, StepSetup2>>
    \o feature_steps(feats, FirstFeatureStep)
    \o <<StepClose1, StepClose2, StepClose3, StepClose4>>

MaxFeatures == 8
FeatureNames == {Login, Home}
FeatureLists == UNION { [1..n -> FeatureNames] : n \in 0..MaxFeatures }

InitFlow ==
    /\ flow_pc = "call"
    /\ features \in FeatureLists
    /\ steps = <<>>
    /\ OutsideFlowIdle

GenerateStepByStepFlow ==
    /\ flow_pc = "call"
    /\ steps' = generate_step_by_step_flow(features)
    /\ flow_pc' = "returned"
    /\ UNCHANGED features
    /\ UNCHANGED OutsideFlow

NextFlow == GenerateStepByStepFlow

SpecFlow == InitFlow /\ [][NextFlow]_flowVars

\* s contains sub as a run of consecutive characters
Contains(s, sub) ==
    \E i \in 1..(Len(s) - Len(sub) + 1) : SubSeq(s, i, i + Len(sub) - 1) = sub

\* the decimal numerals of the step numbers, written out
StepNumerals ==
    << <<"1">>, <<"2">>, <<"3">>, <<"4">>, <<"5">>, <<"6">>, <<"7">>, <<"8">>, <<"9">>,
       <<"1", "0">>, <<"1", "1">>, <<"1", "2">> >>
StepPrefix(numeral, suffix) == <<"S", "t", "e", "p", " ">> \o numeral \o suffix
Quoted(name) == <<"'">> \o name \o <<"'">>

\* C14: for n features the flow has 2n + 6 lines: 'Step 1', 'Step 2'; for the
\* feature at position k the line 'Step k+2:' and right after it the line
\* 'Step k+2.1:', both naming that feature; then the four closing lines with
\* the literal tokens 'Step N', 'Step N+1', 'Step N+2', 'Step N+3'.
C14_StepFlowShape ==
    flow_pc = "returned"
        => LET n == Len(features) IN
           /\ Len(steps) = 2 * n + 6
           /\ StartsWith(steps[1], StepPrefix(<<"1">>, <<":">>))
           /\ StartsWith(steps[2], StepPrefix(<<"2">>, <<":">>))
           /\ \A k \in 1..n :
                 /\ StartsWith(steps[2 * k + 1], StepPrefix(StepNumerals[k + 2], <<":">>))
                 /\ Contains(steps[2 * k + 1], Quoted(features[k]))
                 /\ StartsWith(steps[2 * k + 2],
                               StepPrefix(StepNumerals[k + 2], <<".", "1", ":">>))
                 /\ Contains(steps[2 * k + 2], Quoted(features[k]))
           /\ StartsWith(steps[2 * n + 3], StepPrefix(<<"N">>, <<":">>))
           /\ StartsWith(steps[2 * n + 4], StepPrefix(<<"N", "+", "1">>, <<":">>))
           /\ StartsWith(steps[2 * n + 5], StepPrefix(<<"N", "+", "2">>, <<":">>))
           /\ StartsWith(steps[2 * n + 6], StepPrefix(<<"N", "+", "3">>, <<":">>))

C14_Witness ==
    /\ flow_pc = "returned"
    /\ features = <<Login, Home, Login, Home, Login, Home, Login, Home>>
    /\ Len(steps) = 22
    /\ StartsWith(steps[18], <<"S", "t", "e", "p", " ", "1", "0", ".", "1", ":">>)

\* ------------------------------------------------------------------------
\* FigmaService: the walks over the design tree (figma_service.py)
\* ------------------------------------------------------------------------
\* A node is a dict: `keys` are the keys it carries, the other fields hold the
\* values of the keys present.
TEXT == <<"T", "E", "X", "T">>
CANVAS == <<"C", "A", "N", "V", "A", "S">>
DOCUMENT == <<"D", "O", "C", "U", "M", "E", "N", "T">>
RECTANGLE == <<"R", "E", "C", "T", "A", "N", "G", "L", "E">>
Inter == <<"I", "n", "t", "e", "r">>
Mono == <<"M", "o", "n", "o">>
Title == <<"T", "i", "t", "l", "e">>
Hi == <<"H", "i">>
Go == <<"G", "o">>
Up == <<"U", "p">>

Style(family) == [keys |-> {"fontFamily"}, fontFamily |-> family]
EmptyStyle == [keys |-> {}, fontFamily |-> <<>>]

\* node.get('type') == tag
type_is(n, tag) == "type" \in n.keys /\ n.type = tag

RECURSIVE Concat(_)
Concat(seqs) == IF seqs = <<>> THEN <<>> ELSE Head(seqs) \o Concat(Tail(seqs))

\* variant: a font is taken from any node that carries a style
RECURSIVE extract_fonts_any_type(_)
extract_fonts_any_type(n) ==
    LET below == IF "children" \in n.keys
                 THEN UNION { extract_fonts_any_type(n.children[i]) : i \in 1..Len(n.children) }
                 ELSE {}
        own == IF "style" \in n.keys /\ "fontFamily" \in n.style.keys
                  /\ n.style.fontFamily # <<>>
               THEN {n.style.fontFamily} ELSE {}
    IN below \cup own

RECURSIVE extract_fonts(_)
extract_fonts(n) ==
    LET below == IF "children" \in n.keys
                 THEN UNION { extract_fonts(n.children[i]) : i \in 1..Len(n.children) }
                 ELSE {}
        own == IF type_is(n, TEXT) /\ "style" \in n.keys
                  /\ "fontFamily" \in n.style.keys /\ n.style.fontFamily # <<>>
               THEN {n.style.fontFamily} ELSE {}
    IN below \cup own

RECURSIVE extract_texts(_)
extract_texts(n) ==
    LET below == IF "children" \in n.keys
                 THEN Concat([i \in 1..Len(n.children) |-> extract_texts(n.children[i])])
                 ELSE <<>>
        own == IF type_is(n, TEXT) /\ "characters" \in n.keys
               THEN <<n.characters>> ELSE <<>>
    IN below \o own

\* node['name'] or node['type'] is missing at this node or below it
RECURSIVE structure_raises(_)
structure_raises(n) ==
    \/ "name" \notin n.keys
    \/ "type" \notin n.keys
    \/ /\ "children" \in n.keys
       /\ \E i \in 1..Len(n.children) : structure_raises(n.children[i])

\* variant: the children are written at the level of their parent
RECURSIVE structure_text_flat(_, _)
structure_text_flat(n, lvl) ==
    LET struct == Rep(SP, 2 * lvl) \o n.name \o <<" ", "(">> \o n.type \o <<")", NL>>
    IN IF "children" \in n.keys
       THEN struct \o Concat([i \in 1..Len(n.children) |->
                                 structure_text_flat(n.children[i], lvl)])
       ELSE struct

RECURSIVE structure_text(_, _)
structure_text(n, lvl) ==
    LET struct == Rep(SP, 2 * lvl) \o n.name \o <<" ", "(">> \o n.type \o <<")", NL>>
    IN IF "children" \in n.keys
       THEN struct \o Concat([i \in 1..Len(n.children) |->
                                 structure_text(n.children[i], lvl + 1)])
       ELSE struct

get_project_structure(n, lvl) ==
    IF structure_raises(n) THEN Raised("KeyError") ELSE Returned(structure_text(n, lvl))

get_features(document) ==
    LET children == IF "children" \in document.keys THEN document.children ELSE <<>>
        canvases == SelectSeq(children, LAMBDA child : child.type = CANVAS)
    IN IF \E i \in 1..Len(children) :
             \/ "type" \notin children[i].keys
             \/ children[i].type = CANVAS /\ "name" \notin children[i].keys
       THEN Raised("KeyError")
       ELSE Returned([i \in 1..Len(canvases) |-> canvases[i].name])

\* ---- the design trees walked ----
MaxChildren == 2
MaxLevel == 1

DesignNode(keys, name, type, characters, style, children) ==
    [keys |-> keys, name |-> name, type |-> type, characters |-> characters,
     style |-> style, children |-> children]

Leaves ==
    { DesignNode({"name", "type", "characters", "style"}, Title, TEXT, Hi, Style(Inter), <<>>),
      DesignNode({"name", "type", "characters", "style"}, Title, TEXT, Go, EmptyStyle, <<>>),
      DesignNode({"name", "type", "characters", "style"}, Title, TEXT, <<>>, Style(<<>>), <<>>),
      DesignNode({"name", "type"}, Title, TEXT, <<>>, EmptyStyle, <<>>),
      DesignNode({"name", "type", "characters", "style"}, Search, RECTANGLE, Go, Style(Mono), <<>>),
      DesignNode({"name"}, Login, <<>>, <<>>, EmptyStyle, <<>>),
      DesignNode({"name", "type"}, Cart, CANVAS, <<>>, EmptyStyle, <<>>),
      DesignNode({"type"}, <<>>, CANVAS, <<>>, EmptyStyle, <<>>) }

ChildOrNone == {<<>>} \cup { <<leaf>> : leaf \in Leaves }

Parents ==
    { DesignNode({"name", "type", "children"}, Home, CANVAS, <<>>, EmptyStyle, ch)
        : ch \in ChildOrNone }
    \cup
    { DesignNode({"name", "type", "characters", "style", "children"}, Title, TEXT, Up,
                 Style(Mono), ch) : ch \in ChildOrNone }

Documents ==
    { DesignNode({"name", "type"}, Shop, DOCUMENT, <<>>, EmptyStyle, <<>>) }
    \cup
    { DesignNode({"name", "type", "children"}, Shop, DOCUMENT, <<>>, EmptyStyle, ch)
        : ch \in UNION { [1..k -> Leaves \cup Parents] : k \in 0..MaxChildren } }

TreeCalls == {"extract_fonts", "extract_texts", "get_features"}

InitFig ==
    /\ fig_pc = "call"
    /\ node \in Documents
    /\ \/ fig_call \in TreeCalls /\ level = 0
       \/ fig_call = "get_project_structure" /\ level \in 0..MaxLevel
    /\ fonts = {} /\ texts = <<>> /\ structure = <<>> /\ feature_list = <<>>
    /\ fig_raised = ""
    /\ OutsideFigIdle

ExtractFonts ==
    /\ fig_pc = "call" /\ fig_call = "extract_fonts"
    /\ fonts' = extract_fonts(node)
    /\ fig_pc' = "returned"
    /\ UNCHANGED <<fig_call, node, level, texts, structure, feature_list, fig_raised>>
    /\ UNCHANGED OutsideFig

ExtractTexts ==
    /\ fig_pc = "call" /\ fig_call = "extract_texts"
    /\ texts' = extract_texts(node)
    /\ fig_pc' = "returned"
    /\ UNCHANGED <<fig_call, node, level, fonts, structure, feature_list, fig_raised>>
    /\ UNCHANGED OutsideFig

GetProjectStructure ==
    /\ fig_pc = "call" /\ fig_call = "get_project_structure"
    /\ LET result == get_project_structure(node, level) IN
       /\ fig_raised' = result.raised
       /\ structure' = IF result.raised = "" THEN result.value ELSE structure
       /\ fig_pc' = IF result.raised = "" THEN "returned" ELSE "raised"
    /\ UNCHANGED <<fig_call, node, level, fonts, texts, feature_list>>
    /\ UNCHANGED OutsideFig

GetFeatures ==
    /\ fig_pc = "call" /\ fig_call = "get_features"
    /\ LET result == get_features(node) IN
       /\ fig_raised' = result.raised
       /\ feature_list' = IF result.raised = "" THEN result.value ELSE feature_list
       /\ fig_pc' = IF result.raised = "" THEN "returned" ELSE "raised"
    /\ UNCHANGED <<fig_call, node, level, fonts, texts, structure>>
    /\ UNCHANGED OutsideFig

NextFig == ExtractFonts \/ ExtractTexts \/ GetProjectStructure \/ GetFeatures

SpecFig == InitFig /\ [][NextFig]_figVars

\* ---- what the tree methods are expected to return ----
\* the nodes reachable through children, each with its depth below the start,
\* a node before its children and the children left to right
RECURSIVE Preorder(_, _)
Preorder(n, d) ==
    <<[at |-> n, depth |-> d]>>
    \o (IF "children" \in n.keys
        THEN Concat([i \in 1..Len(n.children) |-> Preorder(n.children[i], d + 1)])
        ELSE <<>>)

Count(seq, x) == Cardinality({ i \in DOMAIN seq : seq[i] = x })

ExtractTextsReturned == fig_call = "extract_texts" /\ fig_pc = "returned"

\* a node that contributes a text: a TEXT node with non-empty characters
ContributesText(visit) ==
    /\ "type" \in visit.at.keys /\ visit.at.type = TEXT
    /\ "characters" \in visit.at.keys /\ visit.at.characters # <<>>

\* C15: extract_texts returns one entry per TEXT node with non-empty
\* characters and none for any other node: every string stands in the result
\* as often as there are such nodes carrying it.
C15_OneEntryPerTextNode ==
    ExtractTextsReturned
        => LET contributing == SelectSeq(Preorder(node, 0), ContributesText)
               written == [i \in 1..Len(contributing) |-> contributing[i].at.characters]
           IN /\ Len(texts) = Len(contributing)
              /\ \A i \in 1..Len(texts) : Count(texts, texts[i]) = Count(written, texts[i])

ExtractFontsReturned == fig_call = "extract_fonts" /\ fig_pc = "returned"

ContributesFont(visit) ==
    /\ "type" \in visit.at.keys /\ visit.at.type = TEXT
    /\ "style" \in visit.at.keys
    /\ "fontFamily" \in visit.at.style.keys /\ visit.at.style.fontFamily # <<>>

\* C16: extract_fonts returns exactly the set of the fontFamily values of the
\* TEXT nodes, anywhere in the tree, that carry a style with a non-empty
\* fontFamily; a tree without TEXT nodes gives the empty set.
C16_FontsOfTextNodes ==
    ExtractFontsReturned
        => LET walk == Preorder(node, 0)
               users == { i \in 1..Len(walk) : ContributesFont(walk[i]) }
           IN /\ fonts = { walk[i].at.style.fontFamily : i \in users }
              /\ (\A i \in 1..Len(walk) : ~type_is(walk[i].at, TEXT)) => fonts = {}

\* two TEXT nodes at different depths use Inter, a rectangle carries Mono
C16_Witness ==
    /\ ExtractFontsReturned
    /\ Len(node.children) = 2
    /\ type_is(node.children[1], CANVAS)
    /\ Len(node.children[1].children) = 1
    /\ ContributesFont([at |-> node.children[1].children[1], depth |-> 2])
    /\ node.children[1].children[1].style.fontFamily = Inter
    /\ type_is(node.children[2], RECTANGLE)
    /\ node.children[2].style.fontFamily = Mono
    /\ fonts = {Inter}

\* C17: extract_texts lists the texts of the contributing nodes in document
\* order, a node before the nodes below it and children left to right, with
\* duplicates kept.
C17_TextsInDocumentOrder ==
    ExtractTextsReturned
        => LET contributing == SelectSeq(Preorder(node, 0), ContributesText)
           IN texts = [i \in 1..Len(contributing) |-> contributing[i].at.characters]

StructureCalled == fig_call = "get_project_structure" /\ fig_pc # "call"

NamedAndTyped(n) ==
    LET walk == Preorder(n, 0)
    IN \A i \in 1..Len(walk) : {"name", "type"} \subseteq walk[i].at.keys

StructureLine(visit, lvl) ==
    Rep(" ", 2 * (lvl + visit.depth))
    \o visit.at.name \o <<" ", "(">> \o visit.at.type \o <<")">>

\* C18: on a tree whose nodes all carry a name and a type,
\* get_project_structure(root, level) writes one line per reachable node, in
\* pre-order, the line of a node at depth d being 2*(level+d) spaces and then
\* '<name> (<type>)'; each line ends with a newline.
C18_OneLinePerNodePreorder ==
    StructureCalled /\ NamedAndTyped(node)
        => /\ fig_pc = "returned"
           /\ LET walk == Preorder(node, 0)
                  lines == SplitLines(structure)
              IN /\ Len(lines) = Len(walk) + 1
                 /\ lines[Len(lines)] = <<>>
                 /\ \A k \in 1..Len(walk) : lines[k] = StructureLine(walk[k], level)

\* a canvas with a text node below it, then a rectangle, written from level 1
C18_Witness ==
    /\ StructureCalled /\ fig_pc = "returned" /\ level = 1
    /\ Len(node.children) = 2
    /\ "children" \in node.children[1].keys
    /\ Len(node.children[1].children) = 1
    /\ LET lines == SplitLines(structure) IN
       /\ Len(lines) = 5
       /\ lines[1] = <<" ", " ">> \o Shop \o <<" ", "(">> \o DOCUMENT \o <<")">>
       /\ lines[2] = Rep(" ", 4) \o Home \o <<" ", "(">> \o CANVAS \o <<")">>
       /\ lines[3] = Rep(" ", 6) \o Title \o <<" ", "(">> \o TEXT \o <<")">>
       /\ lines[4] = Rep(" ", 4) \o Search \o <<" ", "(">> \o RECTANGLE \o <<")">>

FeaturesCalled == fig_call = "get_features" /\ fig_pc # "call"

DirectChildren(document) ==
    IF "children" \in document.keys THEN document.children ELSE <<>>

IsCanvas(child) == "type" \in child.keys /\ child.type = CANVAS

\* C19: get_features returns, in child order, the names of the direct
\* children of the document whose type is CANVAS; a document without children
\* gives the empty list and a direct child without a type is skipped (every
\* canvas among the direct children carries a name here).
C19_DirectCanvasNames ==
    LET direct == DirectChildren(node)
        canvases == SelectSeq(direct, IsCanvas)
    IN FeaturesCalled /\ (\A i \in 1..Len(canvases) : "name" \in canvases[i].keys)
        => /\ fig_pc = "returned"
           /\ feature_list = [i \in 1..Len(canvases) |-> canvases[i].name]

\* ------------------------------------------------------------------------
\* FigmaService.extract_components / extract_styles and the request
\* pipeline of generate_pdf (figma_service.py, main.py)
\* ------------------------------------------------------------------------
\* A components or styles dict is the sequence of its entries in insertion
\* order: the id, the keys of the object under it and its name.
Entry(id, keys, name) == [id |-> id, keys |-> keys, name |-> name]
Named(details) == [id |-> details.id, name |-> details.name]

\* variant: an entry without a name is left out of the mapping
extract_components_skipping(components_dict) ==
    LET named == SelectSeq(components_dict, LAMBDA details : "name" \in details.keys)
    IN Returned([i \in 1..Len(named) |-> Named(named[i])])

\* {comp_id: details['name'] for comp_id, details in components_dict.items()}
extract_components(components_dict) ==
    IF \E i \in 1..Len(components_dict) : "name" \notin components_dict[i].keys
    THEN Raised("KeyError")
    ELSE Returned([i \in 1..Len(components_dict) |-> Named(components_dict[i])])

\* {style_id: details['name'] for style_id, details in styles_dict.items()}
extract_styles(styles_dict) ==
    IF \E i \in 1..Len(styles_dict) : "name" \notin styles_dict[i].keys
    THEN Raised("KeyError")
    ELSE Returned([i \in 1..Len(styles_dict) |-> Named(styles_dict[i])])

\* ---- the requests ----
MaxEntries == 2

Entries ==
    { Entry("1:2", {"key", "name"}, Login),
      Entry("1:3", {"key", "name"}, Search),
      Entry("1:4", {"key"}, <<>>) }

Injective(seq) == \A i, j \in DOMAIN seq : seq[i] = seq[j] => i = j
EntryDicts ==
    { d \in UNION { [1..k -> Entries] : k \in 0..MaxEntries } : Injective(d) }

HomeCanvas ==
    DesignNode({"name", "type", "children"}, Home, CANVAS, <<>>, EmptyStyle,
               << DesignNode({"name", "type", "characters", "style"}, Title, TEXT, Hi,
                             Style(Inter), <<>>) >>)
UntypedNode == DesignNode({"name"}, Login, <<>>, <<>>, EmptyStyle, <<>>)
RequestDocuments ==
    { DesignNode({"name", "type", "children"}, Shop, DOCUMENT, <<>>, EmptyStyle, ch)
        : ch \in { <<HomeCanvas>>, <<HomeCanvas, UntypedNode>> } }

DesignFiles ==
    { [has_document |-> TRUE, document |-> doc,
       has_components |-> TRUE, components |-> comps,
       has_styles |-> TRUE, styles |-> stys]
        : doc \in RequestDocuments, comps \in EntryDicts, stys \in EntryDicts }
    \cup
    { [has_document |-> TRUE, document |-> doc,
       has_components |-> FALSE, components |-> <<>>,
       has_styles |-> FALSE, styles |-> <<>>] : doc \in RequestDocuments }
    \cup
    { [has_document |-> FALSE, document |-> NoNode,
       has_components |-> TRUE, components |-> comps,
       has_styles |-> FALSE, styles |-> <<>>] : comps \in EntryDicts }

\* what a collaborator outside this code does with a call
CallOutcomes == {"returns", "raises"}

InitReq ==
    /\ req_pc = "extract"
    /\ req_figma \in DesignFiles
    /\ report_data \in {"none", "uploaded"}
    /\ groq_api_key \in BOOLEAN
    /\ huggingface_api_key \in BOOLEAN
    /\ facts = NoFacts
    /\ attempted = <<>> /\ ai_provider = "" /\ diagram_llm = "" /\ built = <<>>
    /\ req_status = 0
    /\ OutsideReqIdle

\* an exception inside the handler's try block: HTTPException is re-raised,
\* anything else is turned into HTTPException(500); either way the request
\* ends in a failure response
Fails ==
    /\ req_pc' = "failed"
    /\ req_status' = 500

ReqInputs == <<req_figma, report_data, groq_api_key, huggingface_api_key>>

\* main.py 235-246: the document test and the four extractions
ExtractFromFigma ==
    /\ req_pc = "extract"
    /\ LET component_names == extract_components(IF req_figma.has_components
                                                 THEN req_figma.components ELSE <<>>)
           style_names == extract_styles(IF req_figma.has_styles
                                         THEN req_figma.styles ELSE <<>>)
       IN IF \/ ~req_figma.has_document
             \/ component_names.raised # "" \/ style_names.raised # ""
          THEN Fails /\ UNCHANGED facts
          ELSE /\ facts' = [bound |-> TRUE,
                            fonts |-> extract_fonts(req_figma.document),
                            texts |-> extract_texts(req_figma.document),
                            components |-> component_names.value,
                            styles |-> style_names.value]
               /\ req_pc' = "analyze"
               /\ UNCHANGED req_status
    /\ UNCHANGED <<attempted, ai_provider, diagram_llm, built>>
    /\ UNCHANGED ReqInputs
    /\ UNCHANGED OutsideReq

\* main.py 257-268: Groq is asked first when its key is set
AnalyzeWithGroq ==
    /\ req_pc = "analyze" /\ groq_api_key
    /\ attempted' = Append(attempted, "groq")
    /\ \E outcome \in CallOutcomes :
          IF outcome = "returns"
          THEN ai_provider' = "groq" /\ req_pc' = "build"
          ELSE /\ UNCHANGED ai_provider
               /\ req_pc' = IF huggingface_api_key THEN "fallback" ELSE "build"
    /\ UNCHANGED <<facts, diagram_llm, built, req_status>>
    /\ UNCHANGED ReqInputs
    /\ UNCHANGED OutsideReq

\* main.py 269-276: Hugging Face after Groq has raised
FallBackToHuggingFace ==
    /\ req_pc = "fallback"
    /\ attempted' = Append(attempted, "huggingface")
    /\ \E outcome \in CallOutcomes :
          IF outcome = "returns"
          THEN ai_provider' = "huggingface"
          ELSE UNCHANGED ai_provider
    /\ req_pc' = "build"
    /\ UNCHANGED <<facts, diagram_llm, built, req_status>>
    /\ UNCHANGED ReqInputs
    /\ UNCHANGED OutsideReq

\* main.py 278-288: Hugging Face alone when only its key is set
AnalyzeWithHuggingFace ==
    /\ req_pc = "analyze" /\ ~groq_api_key /\ huggingface_api_key
    /\ attempted' = Append(attempted, "huggingface")
    /\ \E outcome \in CallOutcomes :
          IF outcome = "returns"
          THEN ai_provider' = "huggingface"
          ELSE UNCHANGED ai_provider
    /\ req_pc' = "build"
    /\ UNCHANGED <<facts, diagram_llm, built, req_status>>
    /\ UNCHANGED ReqInputs
    /\ UNCHANGED OutsideReq

\* main.py 257, 278: neither key is set, no provider is asked
NoProvider ==
    /\ req_pc = "analyze" /\ ~groq_api_key /\ ~huggingface_api_key
    /\ req_pc' = "build"
    /\ UNCHANGED <<facts, attempted, ai_provider, diagram_llm, built, req_status>>
    /\ UNCHANGED ReqInputs
    /\ UNCHANGED OutsideReq

\* main.py 290-305: with an analysis, the llm_service and the diagram
GenerateArchitectureDiagram ==
    /\ req_pc = "build" /\ ai_provider # ""
    /\ diagram_llm' = IF groq_api_key THEN "groq"
                      ELSE IF huggingface_api_key THEN "huggingface"
                      ELSE "none"
    /\ \E outcome \in CallOutcomes :
          IF outcome = "returns"
          THEN req_pc' = "enhanced" /\ UNCHANGED req_status
          ELSE Fails
    /\ UNCHANGED <<facts, attempted, ai_provider, built>>
    /\ UNCHANGED ReqInputs
    /\ UNCHANGED OutsideReq

\* main.py 307-318: the enhanced report
GenerateEnhancedPdf ==
    /\ req_pc = "enhanced"
    /\ built' = Append(built, [builder |-> "generate_enhanced_pdf",
                               report_data |-> "not passed",
                               components |-> facts.components,
                               styles |-> facts.styles])
    /\ \E outcome \in CallOutcomes :
          IF outcome = "returns"
          THEN req_pc' = "respond" /\ UNCHANGED req_status
          ELSE Fails
    /\ UNCHANGED <<facts, attempted, ai_provider, diagram_llm>>
    /\ UNCHANGED ReqInputs
    /\ UNCHANGED OutsideReq

\* main.py 319-337: without an analysis, the hierarchy, the features and the
\* basic report
GeneratePdf ==
    /\ req_pc = "build" /\ ai_provider = ""
    /\ LET project_structure == get_project_structure(req_figma.document, 0)
           features_found == get_features(req_figma.document)
       IN IF project_structure.raised # "" \/ features_found.raised # ""
          THEN Fails /\ UNCHANGED built
          ELSE /\ built' = Append(built, [builder |-> "generate_pdf",
                                          report_data |-> report_data,
                                          components |-> facts.components,
                                          styles |-> facts.styles])
               /\ \E outcome \in CallOutcomes :
                     IF outcome = "returns"
                     THEN req_pc' = "respond" /\ UNCHANGED req_status
                     ELSE Fails
    /\ UNCHANGED <<facts, attempted, ai_provider, diagram_llm>>
    /\ UNCHANGED ReqInputs
    /\ UNCHANGED OutsideReq

\* main.py 339-349: the success response
Respond ==
    /\ req_pc = "respond"
    /\ req_pc' = "responded"
    /\ req_status' = 200
    /\ UNCHANGED <<facts, attempted, ai_provider, diagram_llm, built>>
    /\ UNCHANGED ReqInputs
    /\ UNCHANGED OutsideReq

NextReq ==
    \/ ExtractFromFigma
    \/ AnalyzeWithGroq
    \/ FallBackToHuggingFace
    \/ AnalyzeWithHuggingFace
    \/ NoProvider
    \/ GenerateArchitectureDiagram
    \/ GenerateEnhancedPdf
    \/ GeneratePdf
    \/ Respond

SpecReq == InitReq /\ [][NextReq]_reqVars

\* ---- C20 ----
Extracted == req_pc # "extract"

GivenDict(has, dict) == IF has THEN dict ELSE <<>>
AllNamed(dict) == \A i \in 1..Len(dict) : "name" \in dict[i].keys
Ids(mapping) == { mapping[i].id : i \in 1..Len(mapping) }
NameOf(mapping, id) == (CHOOSE i \in 1..Len(mapping) : mapping[i].id = id)

\* C20: extract_components and extract_styles give a mapping with exactly
\* the ids of the input, each id mapped to the name of its object; when an
\* entry of either input lacks its name nothing is extracted, no report
\* builder is ever invoked and the request ends in the failure response.
C20_NamesOrFatal ==
    LET components_dict == GivenDict(req_figma.has_components, req_figma.components)
        styles_dict == GivenDict(req_figma.has_styles, req_figma.styles)
        Exact(mapping, dict) ==
            /\ Ids(mapping) = Ids(dict)
            /\ Len(mapping) = Len(dict)
            /\ \A i \in 1..Len(dict) :
                  mapping[NameOf(mapping, dict[i].id)].name = dict[i].name
    IN Extracted
        => /\ facts.bound
              => /\ AllNamed(components_dict) /\ AllNamed(styles_dict)
                 /\ Exact(facts.components, components_dict)
                 /\ Exact(facts.styles, styles_dict)
           /\ ~(AllNamed(components_dict) /\ AllNamed(styles_dict))
              => /\ ~facts.bound
                 /\ built = <<>>
                 /\ req_pc = "failed" /\ req_status = 500
           /\ req_figma.has_document /\ AllNamed(components_dict) /\ AllNamed(styles_dict)
              => facts.bound

\* a named component and then a style without a name: the request has failed
C20_Witness ==
    /\ req_pc = "failed" /\ req_status = 500
    /\ req_figma.has_document
    /\ req_figma.components = <<Entry("1:2", {"key", "name"}, Login)>>
    /\ req_figma.styles = <<Entry("1:3", {"key", "name"}, Search), Entry("1:4", {"key"}, <<>>)>>
    /\ built = <<>>
    /\ ~facts.bound

\* ------------------------------------------------------------------------
\* The page labels of the fallback (diagram_service.py)
\* ------------------------------------------------------------------------
\* C28: with no language model, the labels '<page> Interface' of the result
\* are those of the first min(2, k) non-blank CANVAS page names in document
\* order, k being the number of non-blank page names: a blank page name ahead
\* of them takes none of the two slots.
C28_FirstTwoNonBlankPages ==
    (FallbackDone /\ pc = "returned")
        => LET pages == canvas_pages(figma_data)
               nonblank == SelectSeq(pages, LAMBDA p : ~IsBlank(p))
               expected == [i \in 1..Min(2, Len(nonblank)) |-> nonblank[i] \o SufInterface]
               labels == TextsOf(components.items)
               interfaces == SelectSeq(labels,
                                 LAMBDA l : \E i \in 1..Len(pages) : l = pages[i] \o SufInterface)
           IN interfaces = expected

\* ------------------------------------------------------------------------
\* The request pipeline of generate_pdf: builders and providers (main.py)
\* ------------------------------------------------------------------------
RequestOver == req_pc \in {"responded", "failed"}
AnalysisObtained == ai_provider # ""

\* C29: a request that got past the fetch and the extraction invokes exactly
\* one report builder, the enhanced one if and only if an analysis was
\* obtained and else the basic one; Hugging Face is asked only when the Groq
\* key is absent or Groq's analysis raised; the uploaded report data goes to
\* the basic builder only.
C29_ExactlyOneBuilder ==
    /\ (facts.bound /\ RequestOver)
          => /\ Len(built) = 1
             /\ built[1].builder = "generate_enhanced_pdf" <=> AnalysisObtained
             /\ built[1].builder = "generate_pdf" <=> ~AnalysisObtained
    /\ Len(built) <= 1
    /\ (\E i \in 1..Len(attempted) : attempted[i] = "huggingface")
          => \/ ~groq_api_key
             \/ attempted = <<"groq", "huggingface">> /\ ai_provider # "groq"
    /\ \A i \in 1..Len(built) :
          /\ built[i].builder = "generate_enhanced_pdf" => built[i].report_data = "not passed"
          /\ built[i].builder = "generate_pdf" => built[i].report_data = report_data

\* C30: the provider of the llm_service given to DiagramService is the
\* provider whose analysis is used for the report.
C30_DiagramUsesAnalysisProvider ==
    diagram_llm # "" => diagram_llm = ai_provider

\* ------------------------------------------------------------------------
\* The files the report builders write (pdf_service.py)
\* ------------------------------------------------------------------------
OutputDir == <<"g", "e", "n", "e", "r", "a", "t", "e", "d", "_", "p", "d", "f", "s">>
ProjectArchitecture == <<"p", "r", "o", "j", "e", "c", "t", "_", "a", "r", "c", "h", "i", "t", "e", "c", "t", "u", "r", "e">>
ArchitectureReport == <<"a", "r", "c", "h", "i", "t", "e", "c", "t", "u", "r", "e", "_", "r", "e", "p", "o", "r", "t">>
DotPdf == <<".", "p", "d", "f">>

\* the file name prefix of each builder
report_kind(builder) ==
    IF builder = "generate_pdf" THEN ProjectArchitecture ELSE ArchitectureReport

\* variant: the time is not cut to whole seconds
timestamp_in_ticks(epoch, ticks_per_second, now) == epoch * ticks_per_second + now

\* int(time.time()): the whole seconds of the clock
timestamp_of(epoch, ticks_per_second, now) == epoch + (now \div ticks_per_second)

\* os.path.join(self.output_dir, f"<kind>_{timestamp}.pdf")
pdf_path_of(builder, timestamp) ==
    OutputDir \o <<"/">> \o report_kind(builder) \o <<"_">> \o IntText(timestamp) \o DotPdf

Epoch == 9
TicksPerSecond == 2
MaxClock == 4
Builders == {"generate_pdf", "generate_enhanced_pdf"}
Invocations == {1, 2}

NotNamed(builder) == [builder |-> builder, at |-> "called", timestamp |-> 0, pdf_path |-> <<>>]

InitPath ==
    /\ clock = 0
    /\ calls \in { <<NotNamed(a), NotNamed(b)>> : a \in Builders, b \in Builders }
    /\ files = {}
    /\ saves = <<>>
    /\ OutsidePathIdle

\* time passes
Tick ==
    /\ clock < MaxClock
    /\ clock' = clock + 1
    /\ UNCHANGED <<calls, files, saves>>
    /\ UNCHANGED OutsidePath

\* pdf_service.py 125-127 and 325-327: the timestamp and the path
NameFile(i) ==
    /\ calls[i].at = "called"
    /\ LET timestamp == timestamp_of(Epoch, TicksPerSecond, clock) IN
       calls' = [calls EXCEPT ![i] = [builder |-> calls[i].builder, at |-> "named",
                                      timestamp |-> timestamp,
                                      pdf_path |-> pdf_path_of(calls[i].builder, timestamp)]]
    /\ UNCHANGED <<clock, files, saves>>
    /\ UNCHANGED OutsidePath

\* c.save() and doc.build(story): the file at pdf_path is written anew
SaveFile(i) ==
    /\ calls[i].at = "named"
    /\ calls' = [calls EXCEPT ![i].at = "saved"]
    /\ files' = { f \in files : f.path # calls[i].pdf_path }
                \cup { [path |-> calls[i].pdf_path, by |-> i] }
    /\ saves' = Append(saves, i)
    /\ UNCHANGED clock
    /\ UNCHANGED OutsidePath

NextPath == Tick \/ (\E i \in Invocations : NameFile(i)) \/ (\E i \in Invocations : SaveFile(i))

SpecPath == InitPath /\ [][NextPath]_pathVars

IsNamed(i) == calls[i].at # "called"
SameFile == IsNamed(1) /\ IsNamed(2) /\ calls[1].pdf_path = calls[2].pdf_path

BULLET == "bullet"
ARROW == "arrow"

\* The flowables of the story. A Spacer's height is in tenths of an inch.
Paragraph(text, style) == [kind |-> "Paragraph", text |-> text, style |-> style, height |-> 0]
Spacer(height) == [kind |-> "Spacer", text |-> <<>>, style |-> "", height |-> height]
PageBreak == [kind |-> "PageBreak", text |-> <<>>, style |-> "", height |-> 0]

\* The analysis is a dict of Python values whose keys are written as strings.
\* key in d, d[key] and d.get(key, default)
has_key(d, key) == \E i \in 1..Len(d.items) : d.items[i].s = key
subscript(d, key) == d.items[CHOOSE i \in 1..Len(d.items) : d.items[i].s = key].items[1]
dict_get(d, key, default) == IF has_key(d, key) THEN subscript(d, key) ELSE default

\* one bullet paragraph per item of a list of strings
bullets(list) ==
    [i \in 1..Len(list.items) |-> Paragraph(<<BULLET, " ">> \o list.items[i].s, "body_style")]

\* ', '.join(list)
RECURSIVE comma_join(_)
comma_join(items) ==
    IF items = <<>> THEN <<>>
    ELSE IF Len(items) = 1 THEN items[1].s
    ELSE items[1].s \o <<",", " ">> \o comma_join(Tail(items))

\* the characters from ' ' to '~' in code order
Ascii ==
    <<" ", "!", "\"", "#", "$", "%", "&", "'", "(", ")", "*", "+", ",", "-", ".", "/",
      "0", "1", "2", "3", "4", "5", "6", "7", "8", "9", ":", ";", "<", "=", ">", "?",
      "@", "A", "B", "C", "D", "E", "F", "G", "H", "I", "J", "K", "L", "M", "N", "O",
      "P", "Q", "R", "S", "T", "U", "V", "W", "X", "Y", "Z", "[", "\\", "]", "^", "_",
      BT, "a", "b", "c", "d", "e", "f", "g", "h", "i", "j", "k", "l", "m", "n", "o",
      "p", "q", "r", "s", "t", "u", "v", "w", "x", "y", "z", "{", "|", "}", "~">>
ord(c) == CHOOSE i \in 1..Len(Ascii) : Ascii[i] = c

\* a < b for two str
RECURSIVE str_less(_, _)
str_less(a, b) ==
    IF b = <<>> THEN FALSE
    ELSE IF a = <<>> THEN TRUE
    ELSE IF Head(a) = Head(b) THEN str_less(Tail(a), Tail(b))
    ELSE ord(Head(a)) < ord(Head(b))

\* sorted(set of str)
RECURSIVE sorted(_)
sorted(set) ==
    IF set = {} THEN <<>>
    ELSE LET least == CHOOSE x \in set : \A y \in set \ {x} : str_less(x, y)
         IN <<least>> \o sorted(set \ {least})

\* str.replace(old, new) for a one-character old
RECURSIVE replace(_, _, _)
replace(s, old, new) ==
    IF s = <<>> THEN <<>>
    ELSE (IF Head(s) = old THEN new ELSE <<Head(s)>>) \o replace(Tail(s), old, new)

AmpEntity == <<"&", "a", "m", "p", ";">>
LtEntity == <<"&", "l", "t", ";">>
GtEntity == <<"&", "g", "t", ";">>

\* variant: the ampersand is replaced last
escape_line_amp_last(line) ==
    replace(replace(replace(line, "<", LtEntity), ">", GtEntity), "&", AmpEntity)

\* line.replace('&', '&amp;').replace('<', '&lt;').replace('>', '&gt;')
escape_line(line) ==
    replace(replace(replace(line, "&", AmpEntity), "<", LtEntity), ">", GtEntity)

\* pdf_service.py 371-377: the title page
title_page(figma) ==
    << Spacer(20),
       Paragraph(<<"S", "y", "s", "t", "e", "m", " ", "A", "r", "c", "h", "i", "t", "e", "c", "t", "u", "r", "e", " ", "R", "e", "p", "o", "r", "t">>, "title_style"),
       Spacer(3),
       Paragraph(<<"D", "e", "s", "i", "g", "n", ":", " ">> \o dict_get(figma, "name", PyStr(<<"U", "n", "t", "i", "t", "l", "e", "d">>)).s, "Normal"),
       Paragraph(<<"G", "e", "n", "e", "r", "a", "t", "e", "d", ":", " ">> \o <<"%", "Y", "-", "%", "m", "-", "%", "d", " ", "%", "H", ":", "%", "M", ":", "%", "S">>, "Normal"),
       PageBreak >>

toc_items ==
    << <<"1", ".", " ", "P", "r", "o", "j", "e", "c", "t", " ", "O", "v", "e", "r", "v", "i", "e", "w">>, <<"2", ".", " ", "D", "e", "s", "i", "g", "n", " ", "A", "n", "a", "l", "y", "s", "i", "s">>, <<"3", ".", " ", "P", "a", "g", "e", "s", " ", "&", " ", "R", "o", "u", "t", "e", "s">>,
       <<"4", ".", " ", "F", "e", "a", "t", "u", "r", "e", " ", "S", "p", "e", "c", "i", "f", "i", "c", "a", "t", "i", "o", "n", "s">>, <<"5", ".", " ", "U", "s", "e", "r", " ", "F", "l", "o", "w">>, <<"6", ".", " ", "I", "m", "p", "l", "e", "m", "e", "n", "t", "a", "t", "i", "o", "n", " ", "G", "u", "i", "d", "e">>,
       <<"7", ".", " ", "T", "e", "c", "h", "n", "i", "c", "a", "l", " ", "S", "t", "a", "c", "k">>, <<"8", ".", " ", "D", "e", "s", "i", "g", "n", " ", "A", "s", "s", "e", "t", "s">> >>

\* pdf_service.py 379-394
table_of_contents ==
    << Paragraph(<<"T", "a", "b", "l", "e", " ", "o", "f", " ", "C", "o", "n", "t", "e", "n", "t", "s">>, "heading_style"), Spacer(2) >>
    \o [i \in 1..Len(toc_items) |-> Paragraph(toc_items[i], "body_style")]
    \o <<PageBreak>>

\* pdf_service.py 396-415
project_overview(design_analysis) ==
    << Paragraph(<<"1", ".", " ", "P", "r", "o", "j", "e", "c", "t", " ", "O", "v", "e", "r", "v", "i", "e", "w">>, "heading_style"), Spacer(1) >>
    \o (IF has_key(design_analysis, "project_overview")
        THEN <<Paragraph(<<"<", "b", ">", "O", "v", "e", "r", "v", "i", "e", "w", ":", "<", "/", "b", ">", " ">>
                         \o subscript(design_analysis, "project_overview").s, "body_style")>>
        ELSE <<>>)
    \o (IF has_key(design_analysis, "application_type")
        THEN <<Paragraph(<<"<", "b", ">", "A", "p", "p", "l", "i", "c", "a", "t", "i", "o", "n", " ", "T", "y", "p", "e", ":", "<", "/", "b", ">", " ">>
                         \o subscript(design_analysis, "application_type").s, "body_style")>>
        ELSE <<>>)
    \o (IF has_key(design_analysis, "target_users")
        THEN <<Paragraph(<<"<", "b", ">", "T", "a", "r", "g", "e", "t", " ", "U", "s", "e", "r", "s", ":", "<", "/", "b", ">", " ">>
                         \o subscript(design_analysis, "target_users").s, "body_style")>>
        ELSE <<>>)
    \o (IF has_key(design_analysis, "key_features")
           /\ Truthy(subscript(design_analysis, "key_features"))
        THEN <<Spacer(1), Paragraph(<<"<", "b", ">", "K", "e", "y", " ", "F", "e", "a", "t", "u", "r", "e", "s", ":", "<", "/", "b", ">">>, "body_style")>>
             \o bullets(subscript(design_analysis, "key_features"))
        ELSE <<>>)
    \o <<PageBreak>>

\* the names of the first 20 entries of a components or styles mapping
first_names(mapping) ==
    [i \in 1..Min(20, Len(mapping)) |->
        Paragraph(<<BULLET, " ">> \o mapping[i].name, "body_style")]

\* pdf_service.py 417-450
design_analysis_section(design) ==
    << Paragraph(<<"2", ".", " ", "D", "e", "s", "i", "g", "n", " ", "A", "n", "a", "l", "y", "s", "i", "s">>, "heading_style"), Spacer(1),
       Paragraph(<<"C", "o", "m", "p", "o", "n", "e", "n", "t", "s">>, "subheading_style") >>
    \o (IF design.components # <<>> THEN first_names(design.components)
        ELSE <<Paragraph(<<"N", "o", " ", "c", "o", "m", "p", "o", "n", "e", "n", "t", "s", " ", "f", "o", "u", "n", "d">>, "body_style")>>)
    \o << Spacer(2), Paragraph(<<"S", "t", "y", "l", "e", "s">>, "subheading_style") >>
    \o (IF design.styles # <<>> THEN first_names(design.styles)
        ELSE <<Paragraph(<<"N", "o", " ", "s", "t", "y", "l", "e", "s", " ", "f", "o", "u", "n", "d">>, "body_style")>>)
    \o << Spacer(2), Paragraph(<<"T", "y", "p", "o", "g", "r", "a", "p", "h", "y">>, "subheading_style") >>
    \o (IF design.fonts # {}
        THEN LET fonts_sorted == sorted(design.fonts)
             IN [i \in 1..Len(fonts_sorted) |->
                    Paragraph(<<BULLET, " ">> \o fonts_sorted[i], "body_style")]
        ELSE <<Paragraph(<<"N", "o", " ", "f", "o", "n", "t", "s", " ", "f", "o", "u", "n", "d">>, "body_style")>>)
    \o <<PageBreak>>

\* pdf_service.py 458-474: one page of the analysis
page_entry(idx, page) ==
    << Paragraph(<<"3", ".">> \o IntText(idx) \o <<" ">>
                 \o dict_get(page, "page_name", PyStr(<<"U", "n", "k", "n", "o", "w", "n", " ", "P", "a", "g", "e">>)).s, "subheading_style"),
       Paragraph(<<"<", "b", ">", "R", "o", "u", "t", "e", ":", "<", "/", "b", ">", " ">> \o dict_get(page, "suggested_route", PyStr(<<"/">>)).s,
                 "body_style"),
       Paragraph(<<"<", "b", ">", "P", "u", "r", "p", "o", "s", "e", ":", "<", "/", "b", ">", " ">> \o dict_get(page, "page_purpose", PyStr(<<"N", "/", "A">>)).s,
                 "body_style"),
       Paragraph(<<"<", "b", ">", "P", "r", "i", "o", "r", "i", "t", "y", ":", "<", "/", "b", ">", " ">>
                 \o dict_get(page, "implementation_priority", PyStr(<<"M", "e", "d", "i", "u", "m">>)).s,
                 "body_style") >>
    \o (IF Truthy(dict_get(page, "user_interactions", PyNone))
        THEN <<Paragraph(<<"<", "b", ">", "U", "s", "e", "r", " ", "I", "n", "t", "e", "r", "a", "c", "t", "i", "o", "n", "s", ":", "<", "/", "b", ">">>, "body_style")>>
             \o bullets(subscript(page, "user_interactions"))
        ELSE <<>>)
    \o (IF Truthy(dict_get(page, "connected_pages", PyNone))
        THEN <<Paragraph(<<"<", "b", ">", "C", "o", "n", "n", "e", "c", "t", "e", "d", " ", "T", "o", ":", "<", "/", "b", ">", " ">>
                         \o comma_join(subscript(page, "connected_pages").items),
                         "body_style")>>
        ELSE <<>>)
    \o (IF Truthy(dict_get(page, "developer_notes", PyNone))
        THEN <<Paragraph(<<"<", "b", ">", "N", "o", "t", "e", "s", ":", "<", "/", "b", ">", " ">> \o subscript(page, "developer_notes").s,
                         "body_style")>>
        ELSE <<>>)
    \o <<Spacer(2)>>

\* pdf_service.py 452-477
pages_section(analysis) ==
    LET pages_analysis == dict_get(analysis, "pages_analysis", PyList(<<>>)) IN
    << Paragraph(<<"3", ".", " ", "P", "a", "g", "e", "s", " ", "&", " ", "R", "o", "u", "t", "e", " ", "M", "a", "p", "p", "i", "n", "g">>, "heading_style"), Spacer(1) >>
    \o Concat([i \in 1..Len(pages_analysis.items) |-> page_entry(i, pages_analysis.items[i])])
    \o (IF Truthy(pages_analysis) THEN <<PageBreak>> ELSE <<>>)

\* pdf_service.py 485-504: one feature of the analysis
feature_entry(idx, feature) ==
    << Paragraph(<<"4", ".">> \o IntText(idx) \o <<" ">>
                 \o dict_get(feature, "feature_name", PyStr(<<"F", "e", "a", "t", "u", "r", "e">>)).s, "subheading_style"),
       Paragraph(dict_get(feature, "description", PyStr(<<"N", "o", " ", "d", "e", "s", "c", "r", "i", "p", "t", "i", "o", "n">>)).s,
                 "body_style") >>
    \o (IF Truthy(dict_get(feature, "user_stories", PyNone))
        THEN <<Paragraph(<<"<", "b", ">", "U", "s", "e", "r", " ", "S", "t", "o", "r", "i", "e", "s", ":", "<", "/", "b", ">">>, "body_style")>>
             \o bullets(subscript(feature, "user_stories"))
        ELSE <<>>)
    \o (IF Truthy(dict_get(feature, "api_endpoints_needed", PyNone))
        THEN <<Paragraph(<<"<", "b", ">", "A", "P", "I", " ", "E", "n", "d", "p", "o", "i", "n", "t", "s", ":", "<", "/", "b", ">">>, "body_style")>>
             \o bullets(subscript(feature, "api_endpoints_needed"))
        ELSE <<>>)
    \o (IF Truthy(dict_get(feature, "technical_requirements", PyNone))
        THEN <<Paragraph(<<"<", "b", ">", "T", "e", "c", "h", "n", "i", "c", "a", "l", " ", "R", "e", "q", "u", "i", "r", "e", "m", "e", "n", "t", "s", ":", "<", "/", "b", ">">>, "body_style")>>
             \o bullets(subscript(feature, "technical_requirements"))
        ELSE <<>>)
    \o <<Spacer(2)>>

\* pdf_service.py 479-507
feature_section(analysis) ==
    LET feature_specs == dict_get(analysis, "feature_specifications", PyList(<<>>)) IN
    << Paragraph(<<"4", ".", " ", "F", "e", "a", "t", "u", "r", "e", " ", "S", "p", "e", "c", "i", "f", "i", "c", "a", "t", "i", "o", "n", "s">>, "heading_style"), Spacer(1) >>
    \o Concat([i \in 1..Len(feature_specs.items) |->
                  feature_entry(i, feature_specs.items[i])])
    \o (IF Truthy(feature_specs) THEN <<PageBreak>> ELSE <<>>)

\* pdf_service.py 509-522
user_flow_section(analysis) ==
    LET user_flow == dict_get(analysis, "user_flow", PyStr(<<>>))
        lines == SplitLines(user_flow.s)
        written == SelectSeq(lines, LAMBDA line : Strip(line) # <<>>)
    IN << Paragraph(<<"5", ".", " ", "U", "s", "e", "r", " ", "F", "l", "o", "w">>, "heading_style"), Spacer(1) >>
       \o (IF Truthy(user_flow)
           THEN [i \in 1..Len(written) |-> Paragraph(written[i], "body_style")]
           ELSE <<Paragraph(<<"U", "s", "e", "r", " ", "f", "l", "o", "w", " ", "n", "o", "t", " ", "g", "e", "n", "e", "r", "a", "t", "e", "d">>, "body_style")>>)
       \o <<PageBreak>>

\* pdf_service.py 536-546: one step of a phase
step_entry(step) ==
    << Paragraph(<<"<", "b", ">", "S", "t", "e", "p", " ">> \o dict_get(step, "step_number", PyStr(<<"?">>)).s
                 \o <<":", "<", "/", "b", ">", " ">> \o dict_get(step, "title", PyStr(<<"S", "t", "e", "p">>)).s, "body_style"),
       Paragraph(dict_get(step, "description", PyStr(<<>>)).s, "body_style") >>
    \o (IF Truthy(dict_get(step, "deliverables", PyNone))
        THEN <<Paragraph(<<"<", "b", ">", "D", "e", "l", "i", "v", "e", "r", "a", "b", "l", "e", "s", ":", "<", "/", "b", ">">>, "body_style")>>
             \o bullets(subscript(step, "deliverables"))
        ELSE <<>>)

\* pdf_service.py 531-548: one phase of the guide
phase_entry(phase) ==
    LET steps_of_phase == dict_get(phase, "steps", PyList(<<>>)) IN
    << Paragraph(dict_get(phase, "phase", PyStr(<<"P", "h", "a", "s", "e">>)).s, "subheading_style") >>
    \o (IF Truthy(dict_get(phase, "duration_estimate", PyNone))
        THEN <<Paragraph(<<"<", "b", ">", "D", "u", "r", "a", "t", "i", "o", "n", ":", "<", "/", "b", ">", " ">> \o subscript(phase, "duration_estimate").s,
                         "body_style")>>
        ELSE <<>>)
    \o Concat([i \in 1..Len(steps_of_phase.items) |-> step_entry(steps_of_phase.items[i])])
    \o <<Spacer(2)>>

\* pdf_service.py 560-564: one route of the routing structure
route_entry(route) ==
    Paragraph(<<"<", "b", ">">> \o dict_get(route, "path", PyStr(<<"/">>)).s \o <<"<", "/", "b", ">", " ">>
              \o <<ARROW, " ">> \o dict_get(route, "component", PyStr(<<"C", "o", "m", "p", "o", "n", "e", "n", "t">>)).s
              \o <<":", " ">> \o dict_get(route, "description", PyStr(<<>>)).s, "body_style")

\* pdf_service.py 524-566
implementation_section(analysis) ==
    LET impl_guide == dict_get(analysis, "implementation_guide", PyDict(<<>>))
        phases == dict_get(impl_guide, "implementation_phases", PyList(<<>>))
        routing == dict_get(impl_guide, "routing_structure", PyNone)
    IN << Paragraph(<<"6", ".", " ", "I", "m", "p", "l", "e", "m", "e", "n", "t", "a", "t", "i", "o", "n", " ", "G", "u", "i", "d", "e">>, "heading_style"), Spacer(1) >>
       \o Concat([i \in 1..Len(phases.items) |-> phase_entry(phases.items[i])])
       \o (IF Truthy(routing)
           THEN <<Paragraph(<<"R", "o", "u", "t", "i", "n", "g", " ", "S", "t", "r", "u", "c", "t", "u", "r", "e">>, "subheading_style")>>
                \o (IF Truthy(dict_get(routing, "description", PyNone))
                    THEN <<Paragraph(subscript(routing, "description").s, "body_style")>>
                    ELSE <<>>)
                \o (IF Truthy(dict_get(routing, "routes", PyNone))
                    THEN LET routes == subscript(routing, "routes").items
                         IN [i \in 1..Len(routes) |-> route_entry(routes[i])]
                    ELSE <<>>)
           ELSE <<>>)
       \o <<PageBreak>>

\* pdf_service.py 568-591
tech_stack_section(design_analysis) ==
    LET tech_stack == dict_get(design_analysis, "technical_stack_recommendations",
                               PyDict(<<>>))
    IN << Paragraph(<<"7", ".", " ", "T", "e", "c", "h", "n", "i", "c", "a", "l", " ", "S", "t", "a", "c", "k", " ", "R", "e", "c", "o", "m", "m", "e", "n", "d", "a", "t", "i", "o", "n", "s">>, "heading_style"), Spacer(1) >>
       \o (IF Truthy(dict_get(tech_stack, "frontend", PyNone))
           THEN <<Paragraph(<<"<", "b", ">", "F", "r", "o", "n", "t", "e", "n", "d", ":", "<", "/", "b", ">">>, "subheading_style")>>
                \o bullets(subscript(tech_stack, "frontend"))
           ELSE <<>>)
       \o (IF Truthy(dict_get(tech_stack, "backend", PyNone))
           THEN <<Paragraph(<<"<", "b", ">", "B", "a", "c", "k", "e", "n", "d", ":", "<", "/", "b", ">">>, "subheading_style")>>
                \o bullets(subscript(tech_stack, "backend"))
           ELSE <<>>)
       \o (IF Truthy(dict_get(tech_stack, "database", PyNone))
           THEN << Paragraph(<<"<", "b", ">", "D", "a", "t", "a", "b", "a", "s", "e", ":", "<", "/", "b", ">">>, "subheading_style"),
                   Paragraph(<<BULLET, " ">> \o subscript(tech_stack, "database").s,
                             "body_style") >>
           ELSE <<>>)
       \o (IF Truthy(dict_get(tech_stack, "additional_tools", PyNone))
           THEN <<Paragraph(<<"<", "b", ">", "A", "d", "d", "i", "t", "i", "o", "n", "a", "l", " ", "T", "o", "o", "l", "s", ":", "<", "/", "b", ">">>, "subheading_style")>>
                \o bullets(subscript(tech_stack, "additional_tools"))
           ELSE <<>>)

FontOpen == <<"<", "f", "o", "n", "t", " ", "n", "a", "m", "e", "=", "'", "C", "o", "u", "r", "i", "e", "r", "-", "B", "o", "l", "d", "'", " ", "s", "i", "z", "e", "=", "'", "1", "2", "'", ">">>
FontClose == <<"<", "/", "f", "o", "n", "t", ">">>

\* pdf_service.py 615-623: one line of the diagram
diagram_line(line) ==
    IF Strip(line) # <<>>
    THEN Paragraph(FontOpen \o escape_line(line) \o FontClose, "ascii_style")
    ELSE Spacer(1)

\* pdf_service.py 593-631; the diagram is a str or None
diagram_section(diagram_text) ==
    << PageBreak, Paragraph(<<"8", ".", " ", "S", "y", "s", "t", "e", "m", " ", "A", "r", "c", "h", "i", "t", "e", "c", "t", "u", "r", "e", " ", "D", "i", "a", "g", "r", "a", "m">>, "heading_style"), Spacer(3) >>
    \o (IF Truthy(diagram_text)
        THEN LET diagram_lines_split == SplitLines(diagram_text.s)
             IN <<Spacer(2)>>
                \o [i \in 1..Len(diagram_lines_split) |-> diagram_line(diagram_lines_split[i])]
                \o << Spacer(3),
                      Paragraph(<<"G", "e", "n", "e", "r", "a", "t", "e", "d", " ", "A", "S", "C", "I", "I", " ", "a", "r", "c", "h", "i", "t", "e", "c", "t", "u", "r", "e", " ", "d", "i", "a", "g", "r", "a", "m", " ", "b", "a", "s", "e", "d", " ", "o", "n", " ", "F", "i", "g", "m", "a", " ", "d", "e", "s", "i", "g", "n", " ", "a", "n", "a", "l", "y", "s", "i", "s">>,
                                "body_style") >>
        ELSE <<Paragraph(<<"N", "o", " ", "a", "r", "c", "h", "i", "t", "e", "c", "t", "u", "r", "e", " ", "d", "i", "a", "g", "r", "a", "m", " ", "g", "e", "n", "e", "r", "a", "t", "e", "d">>, "body_style")>>)

\* the story generate_enhanced_pdf hands to doc.build
generate_enhanced_pdf(design, analysis, diagram_text) ==
    LET design_analysis == dict_get(analysis, "design_analysis", PyDict(<<>>)) IN
    title_page(design.figma_data)
    \o table_of_contents
    \o project_overview(design_analysis)
    \o design_analysis_section(design)
    \o pages_section(analysis)
    \o feature_section(analysis)
    \o user_flow_section(analysis)
    \o implementation_section(analysis)
    \o tech_stack_section(design_analysis)
    \o diagram_section(diagram_text)

\* ---- the calls of generate_enhanced_pdf ----
MaxDiagramLen == 4

Str(text) == PyStr(text)
Optional(key, values) == {<<>>} \cup { <<PyMember(key, v)>> : v \in values }

FullDesignAnalysis ==
    PyDict(<< PyMember("project_overview", Str(<<"A", " ", "s", "h", "o", "p">>)),
              PyMember("application_type", Str(Dashboard)),
              PyMember("target_users", Str(<<"B", "u", "y", "e", "r", "s">>)),
              PyMember("key_features", PyList(<<Str(Login), Str(Search)>>)),
              PyMember("technical_stack_recommendations",
                       PyDict(<< PyMember("frontend", PyList(<<Str(React)>>)),
                                 PyMember("backend", PyList(<<Str(Flask)>>)),
                                 PyMember("database", Str(Postgres)),
                                 PyMember("additional_tools", PyList(<<Str(Node)>>)) >>)) >>)
HollowDesignAnalysis ==
    PyDict(<< PyMember("key_features", PyList(<<>>)),
              PyMember("technical_stack_recommendations",
                       PyDict(<< PyMember("frontend", PyList(<<>>)),
                                 PyMember("database", Str(<<>>)) >>)) >>)
DesignAnalysisValues == { PyDict(<<>>), HollowDesignAnalysis, FullDesignAnalysis }

FullPage ==
    PyDict(<< PyMember("page_name", Str(Home)),
              PyMember("suggested_route", Str(<<"/", "h", "o", "m", "e">>)),
              PyMember("page_purpose", Str(<<"S", "t", "a", "r", "t">>)),
              PyMember("implementation_priority", Str(<<"H", "i", "g", "h">>)),
              PyMember("user_interactions", PyList(<<Str(<<"C", "l", "i", "c", "k">>)>>)),
              PyMember("connected_pages", PyList(<<Str(Cart), Str(Settings)>>)),
              PyMember("developer_notes", Str(<<"C", "a", "c", "h", "e">>)) >>)
PagesValues == { PyList(<<>>), PyList(<<PyDict(<<>>)>>), PyList(<<FullPage, PyDict(<<>>)>>) }

FullFeature ==
    PyDict(<< PyMember("feature_name", Str(Login)),
              PyMember("description", Str(<<"S", "i", "g", "n", " ", "i", "n">>)),
              PyMember("user_stories", PyList(<<Str(<<"A", "s", " ", "a", " ", "u", "s", "e", "r">>)>>)),
              PyMember("api_endpoints_needed", PyList(<<Str(<<"P", "O", "S", "T", " ", "/", "l", "o", "g", "i", "n">>)>>)),
              PyMember("technical_requirements", PyList(<<Str(<<"J", "W", "T">>)>>)) >>)
HollowFeature ==
    PyDict(<< PyMember("description", Str(<<>>)), PyMember("user_stories", PyList(<<>>)) >>)
FeatureValues == { PyList(<<>>), PyList(<<HollowFeature>>), PyList(<<FullFeature>>) }

UserFlowValues == { Str(<<>>), Str(<<" ", "\n", " ">>), Str(<<"O", "p", "e", "n", "\n", "\n", " ", "B", "u", "y", " ">>) }

FullGuide ==
    PyDict(<< PyMember("implementation_phases",
                       PyList(<< PyDict(<< PyMember("phase", Str(<<"P", "h", "a", "s", "e", " ", "1">>)),
                                           PyMember("duration_estimate", Str(<<"1", " ", "w", "e", "e", "k">>)),
                                           PyMember("steps",
                                               PyList(<< PyDict(<< PyMember("step_number", Str(<<"1">>)),
                                                                   PyMember("title", Str(<<"S", "e", "t", " ", "u", "p">>)),
                                                                   PyMember("description", Str(<<"I", "n", "s", "t", "a", "l", "l">>)),
                                                                   PyMember("deliverables",
                                                                            PyList(<<Str(<<"R", "e", "p", "o">>)>>)) >>),
                                                         PyDict(<<>>) >>)) >>) >>)),
              PyMember("routing_structure",
                       PyDict(<< PyMember("description", Str(<<"R", "o", "u", "t", "e", "s">>)),
                                 PyMember("routes",
                                          PyList(<< PyDict(<< PyMember("path", Str(<<"/", "h", "o", "m", "e">>)),
                                                              PyMember("component", Str(Home)),
                                                              PyMember("description", Str(<<"S", "t", "a", "r", "t">>)) >>),
                                                    PyDict(<<>>) >>)) >>)) >>)
HollowGuide ==
    PyDict(<< PyMember("implementation_phases", PyList(<<>>)),
              PyMember("routing_structure", PyDict(<<>>)) >>)
GuideValues == { PyDict(<<>>), HollowGuide, FullGuide }

Analyses ==
    { PyDict(d \o p \o f \o u \o g) :
        d \in Optional("design_analysis", DesignAnalysisValues),
        p \in Optional("pages_analysis", PagesValues),
        f \in Optional("feature_specifications", FeatureValues),
        u \in Optional("user_flow", UserFlowValues),
        g \in Optional("implementation_guide", GuideValues) }

EnhancedFacts ==
    { [figma_data |-> PyDict(<<>>), fonts |-> {}, components |-> <<>>, styles |-> <<>>],
      [figma_data |-> PyDict(<<PyMember("name", Str(Shop))>>), fonts |-> {Mono, Inter},
       components |-> <<[id |-> "1:2", name |-> Login]>>,
       styles |-> <<[id |-> "1:3", name |-> Search]>>] }

DiagramChars == {"&", "<", ">", "a", " ", NL}
DiagramTexts == UNION { [1..n -> DiagramChars] : n \in 0..MaxDiagramLen }
SampleDiagrams ==
    { PyNone, Str(<<>>), Str(<<"+", "-", "-", "+", "\n", "|", "<", ">", "|", "\n", "\n", " ", " ", "&", "a", "m", "p", ";">>) }

InitEnhanced ==
    /\ enh_pc = "call"
    /\ \/ /\ enh_facts \in EnhancedFacts
          /\ gemini_analysis \in Analyses
          /\ ascii_diagram \in SampleDiagrams
       \/ /\ enh_facts \in EnhancedFacts
          /\ gemini_analysis = PyDict(<<>>)
          /\ ascii_diagram \in { Str(d) : d \in DiagramTexts }
    /\ story = <<>>
    /\ OutsideEnhancedIdle

BuildStory ==
    /\ enh_pc = "call"
    /\ story' = generate_enhanced_pdf(enh_facts, gemini_analysis, ascii_diagram)
    /\ enh_pc' = "built"
    /\ UNCHANGED <<enh_facts, gemini_analysis, ascii_diagram>>
    /\ UNCHANGED OutsideEnhanced

NextEnhanced == BuildStory

SpecEnhanced == InitEnhanced /\ [][NextEnhanced]_enhVars

\* ---- C25, C26 ----
StoryBuilt == enh_pc = "built"

\* the positions of the eight numbered section headers of the story
SectionHeaders(flowables) ==
    { i \in 1..Len(flowables) :
        /\ flowables[i].style = "heading_style"
        /\ Len(flowables[i].text) >= 2
        /\ flowables[i].text[1] \in Digits /\ flowables[i].text[2] = "." }

\* the flowables of the section whose header text begins with the numeral
SectionOf(flowables, numeral) ==
    LET headers == SectionHeaders(flowables)
        start == CHOOSE i \in headers : flowables[i].text[1] = numeral
        later == { j \in headers : j > start }
        stop == IF later = {} THEN Len(flowables) + 1
                ELSE CHOOSE j \in later : \A k \in later : j <= k
    IN SubSeq(flowables, start + 1, stop - 1)

Paragraphs(flowables) == SelectSeq(flowables, LAMBDA f : f.kind = "Paragraph")

\* C25: whatever optional fields of the analysis are absent, empty or blank,
\* each of the 8 numbered section headers is followed, before the next
\* header, by at least one paragraph (content or placeholder); the User Flow
\* section holds one paragraph per non-blank line of the narrative, or the
\* placeholder sentence when there is no such line.
C25_NoEmptySection ==
    StoryBuilt
        => LET numerals == {"1", "2", "3", "4", "5", "6", "7", "8"}
               narrative == dict_get(gemini_analysis, "user_flow", PyStr(<<>>)).s
               lines == SelectSeq(SplitLines(narrative), LAMBDA l : ~IsBlank(l))
               flow == Paragraphs(SectionOf(story, "5"))
           IN /\ { story[i].text[1] : i \in SectionHeaders(story) } = numerals
              /\ Cardinality(SectionHeaders(story)) = 8
              /\ \A n \in numerals : Paragraphs(SectionOf(story, n)) # <<>>
              /\ IF lines # <<>>
                 THEN [i \in 1..Len(flow) |-> flow[i].text] = lines
                 ELSE [i \in 1..Len(flow) |-> flow[i].text] = <<<<"U", "s", "e", "r", " ", "f", "l", "o", "w", " ", "n", "o", "t", " ", "g", "e", "n", "e", "r", "a", "t", "e", "d">>>>

\* the entity of one character of a diagram line
EntityOf(c) ==
    CASE c = "&" -> <<"&", "a", "m", "p", ";">>
      [] c = "<" -> <<"&", "l", "t", ";">>
      [] c = ">" -> <<"&", "g", "t", ";">>
      [] OTHER -> <<c>>

\* the text an escaped text stands for
RECURSIVE Unescape(_)
Unescape(s) ==
    IF s = <<>> THEN <<>>
    ELSE IF StartsWith(s, <<"&", "a", "m", "p", ";">>)
         THEN <<"&">> \o Unescape(SubSeq(s, 6, Len(s)))
    ELSE IF StartsWith(s, <<"&", "l", "t", ";">>)
         THEN <<"<">> \o Unescape(SubSeq(s, 5, Len(s)))
    ELSE IF StartsWith(s, <<"&", "g", "t", ";">>)
         THEN <<">">> \o Unescape(SubSeq(s, 5, Len(s)))
    ELSE <<Head(s)>> \o Unescape(Tail(s))

\* the text between the font tags of a diagram paragraph
Embedded(text) == SubSeq(text, Len(FontOpen) + 1, Len(text) - Len(FontClose))

\* C26: in the diagram section each non-blank line of the diagram is a
\* paragraph holding the line with every '&', '<' and '>' replaced once by
\* its entity: no raw '<' or '>' is left and unescaping gives the line back;
\* each blank line is a spacer; without a diagram, or with an empty one, the
\* section holds the placeholder sentence.
C26_DiagramLinesEscaped ==
    StoryBuilt
        => LET section == SectionOf(story, "8") IN
           IF ascii_diagram.t = "str" /\ ascii_diagram.s # <<>>
           THEN LET lines == SplitLines(ascii_diagram.s) IN
                /\ Len(section) = Len(lines) + 4
                /\ \A k \in 1..Len(lines) :
                      LET flowable == section[k + 2] IN
                      IF IsBlank(lines[k])
                      THEN flowable.kind = "Spacer"
                      ELSE /\ flowable.kind = "Paragraph"
                           /\ StartsWith(flowable.text, FontOpen)
                           /\ LET escaped == Embedded(flowable.text) IN
                              /\ escaped = Concat([i \in 1..Len(lines[k]) |->
                                                      EntityOf(lines[k][i])])
                              /\ \A i \in 1..Len(escaped) : escaped[i] \notin {"<", ">"}
                              /\ Unescape(escaped) = lines[k]
           ELSE Paragraphs(section)
                  = <<Paragraph(<<"N", "o", " ", "a", "r", "c", "h", "i", "t", "e", "c", "t", "u", "r", "e", " ", "d", "i", "a", "g", "r", "a", "m", " ", "g", "e", "n", "e", "r", "a", "t", "e", "d">>, "body_style")>>

\* a line holding all three characters, a blank line and a line that already
\* reads as an entity
C26_Witness ==
    /\ StoryBuilt
    /\ ascii_diagram = Str(<<"+", "-", "-", "+", "\n", "|", "<", ">", "|", "\n", "\n", " ", " ", "&", "a", "m", "p", ";">>)
    /\ LET section == SectionOf(story, "8") IN
       /\ Embedded(section[4].text) = <<"|", "&", "l", "t", ";", "&", "g", "t", ";", "|">>
       /\ section[5].kind = "Spacer"
       /\ Embedded(section[6].text) = <<" ", " ", "&", "a", "m", "p", ";", "a", "m", "p", ";">>

\* ------------------------------------------------------------------------
\* PDFService.generate_pdf: the canvas calls of the basic report
\* (pdf_service.py 54-96, 98-299).  Lengths are in hundredths of a point,
\* so that every position the code computes is a whole number.
\* ------------------------------------------------------------------------
Inch == 7200
PageHeight == 79200
Inches(hundredths) == (Inch * hundredths) \div 100
TopOfPage == PageHeight - Inch

\* the calls on the canvas
CanvasOp(op, x, y, w, h, text, name) ==
    [op |-> op, x |-> x, y |-> y, w |-> w, h |-> h, text |-> text, name |-> name]
setFont(name, size) == CanvasOp("setFont", 0, 0, 0, size, <<>>, name)
drawString(x, y, text) == CanvasOp("drawString", x, y, 0, 0, text, "")
showPage == CanvasOp("showPage", 0, 0, 0, 0, <<>>, "")
rect(x, y, w, h) == CanvasOp("rect", x, y, w, h, <<>>, "")
line(x1, y1, x2, y2) == CanvasOp("line", x1, y1, x2, y2, <<>>, "")
setFillColor(color) == CanvasOp("setFillColor", 0, 0, 0, 0, <<>>, color)
setStrokeColor(color) == CanvasOp("setStrokeColor", 0, 0, 0, 0, <<>>, color)
setLineWidth(w) == CanvasOp("setLineWidth", 0, 0, w, 0, <<>>, "")
save == CanvasOp("save", 0, 0, 0, 0, <<>>, "")

\* The canvas calls made so far and the cursor y_pos.
Cursor(ops, y) == [ops |-> ops, y |-> y]
call(cur, op) == Cursor(Append(cur.ops, op), cur.y)
\* c.drawString(x, y_pos, text); y_pos -= drop
draw_line(cur, x, text, drop) == Cursor(Append(cur.ops, drawString(x, cur.y, text)), cur.y - drop)
\* c.showPage(); y_pos = height - inch
new_page(cur) == Cursor(Append(cur.ops, showPage), TopOfPage)
\* if y_pos < limit: c.showPage(); y_pos = height - inch
page_check(cur, limit) == IF cur.y < limit THEN new_page(cur) ELSE cur

MaxListed == 20
MaxTexts == 15
MaxTextLen == 70
MaxStructureLines == 50
MaxStructureLen == 90
MaxValueLen == 100
WrapWidth == 85
Ellipsis == <<".", ".", ".">>

\* pdf_service.py 54-96
draw_architecture_diagram(ops) ==
    ops \o << setFillColor("#4A90E2"), setStrokeColor("black"),
              rect(Inches(100), Inches(700), Inches(200), Inches(100)),
              setFillColor("black"),
              drawString(Inches(120), Inches(750), <<"F", "r", "o", "n", "t", "e", "n", "d">>),
              drawString(Inches(120), Inches(730), <<"(", "S", "t", "r", "e", "a", "m", "l", "i", "t", ")">>),
              setFillColor("#4A90E2"),
              rect(Inches(400), Inches(700), Inches(200), Inches(100)),
              setFillColor("black"),
              drawString(Inches(420), Inches(750), <<"B", "a", "c", "k", "e", "n", "d">>),
              drawString(Inches(420), Inches(730), <<"(", "F", "a", "s", "t", "A", "P", "I", ")">>),
              setFillColor("#4A90E2"),
              rect(Inches(700), Inches(700), Inches(200), Inches(100)),
              setFillColor("black"),
              drawString(Inches(720), Inches(750), <<"D", "a", "t", "a", "b", "a", "s", "e">>),
              drawString(Inches(720), Inches(730), <<"(", "S", "Q", "L", "i", "t", "e", ")">>),
              setStrokeColor("#2E5C8A"), setLineWidth(2),
              line(Inches(300), Inches(750), Inches(400), Inches(750)),
              line(Inches(600), Inches(750), Inches(700), Inches(750)),
              setFillColor("#2E5C8A"),
              drawString(Inches(320), Inches(760), <<"A", "P", "I", " ", "C", "a", "l", "l", "s">>),
              drawString(Inches(620), Inches(760), <<"D", "B", " ", "Q", "u", "e", "r", "i", "e", "s">>) >>

\* pdf_service.py 134-142: title and the name of the design
title_section(figma) ==
    LET named == dict_get(figma, "name", PyStr(<<"U", "n", "t", "i", "t", "l", "e", "d">>)).s
        top == Cursor(<<setFont("Helvetica-Bold", 16)>>, TopOfPage)
        titled == draw_line(top, Inch, <<"S", "y", "s", "t", "e", "m", " ", "A", "r", "c", "h", "i", "t", "e", "c", "t", "u", "r", "e", " ", "R", "e", "p", "o", "r", "t">>, Inches(30))
    IN draw_line(call(titled, setFont("Helvetica", 10)), Inch,
                 <<"G", "e", "n", "e", "r", "a", "t", "e", "d", " ", "f", "r", "o", "m", " ", "F", "i", "g", "m", "a", ":", " ">> \o named, Inches(50))

\* variant: the list is not cut
first_listed_uncut(names) == names

\* list(components.items())[:20]
first_listed(names) == Take(names, MaxListed)

\* pdf_service.py 151-156: for each name the check of the cursor, then its bullet
RECURSIVE bullet_lines(_, _)
bullet_lines(cur, names) ==
    IF names = <<>> THEN cur
    ELSE IF cur.y < Inch
         THEN bullet_lines(draw_line(new_page(cur), Inches(150),
                                     <<BULLET, " ">> \o Head(names), Inches(20)),
                           Tail(names))
         ELSE bullet_lines(draw_line(cur, Inches(150),
                                     <<BULLET, " ">> \o Head(names), Inches(20)),
                           Tail(names))

\* a section header in Helvetica-Bold 12 and the body font after it
header(cur, text) ==
    call(draw_line(call(cur, setFont("Helvetica-Bold", 12)), Inch, text, Inches(25)),
         setFont("Helvetica", 10))

\* the end of a listing section: y_pos -= 0.3 * inch
section_gap(cur) == Cursor(cur.ops, cur.y - Inches(30))

\* pdf_service.py 144-160; the names are the values of the dict in its order
components_section(cur, names) ==
    LET headed == header(cur, <<"C", "o", "m", "p", "o", "n", "e", "n", "t", "s", ":">>)
    IN section_gap(IF names # <<>>
                   THEN bullet_lines(headed, first_listed(names))
                   ELSE draw_line(headed, Inches(150), <<"N", "o", " ", "c", "o", "m", "p", "o", "n", "e", "n", "t", "s", " ", "f", "o", "u", "n", "d">>, Inches(20)))

\* pdf_service.py 162-182
styles_section(cur, names) ==
    LET headed == header(page_check(cur, 2 * Inch), <<"S", "t", "y", "l", "e", "s", ":">>)
    IN section_gap(IF names # <<>>
                   THEN bullet_lines(headed, first_listed(names))
                   ELSE draw_line(headed, Inches(150), <<"N", "o", " ", "s", "t", "y", "l", "e", "s", " ", "f", "o", "u", "n", "d">>, Inches(20)))

\* pdf_service.py 184-204; the fonts are a set of str
fonts_section(cur, font_set) ==
    LET headed == header(page_check(cur, 2 * Inch), <<"F", "o", "n", "t", "s", ":">>)
    IN section_gap(IF font_set # {}
                   THEN bullet_lines(headed, sorted(font_set))
                   ELSE draw_line(headed, Inches(150), <<"N", "o", " ", "f", "o", "n", "t", "s", " ", "f", "o", "u", "n", "d">>, Inches(20)))

\* text[:70] + "..." if len(text) > 70 else text
display_text(text) ==
    IF Len(text) > MaxTextLen THEN Take(text, MaxTextLen) \o Ellipsis ELSE text

\* pdf_service.py 206-223
texts_section(cur, text_list) ==
    LET headed == header(page_check(cur, 2 * Inch), <<"T", "e", "x", "t", " ", "E", "l", "e", "m", "e", "n", "t", "s", " ", "(", "s", "a", "m", "p", "l", "e", ")", ":">>)
        shown == Take(text_list, MaxTexts)
    IN section_gap(bullet_lines(headed, [i \in 1..Len(shown) |-> display_text(shown[i])]))

\* line[:90] drawn unless the line is blank
structure_line(cur, text) ==
    IF Strip(text) # <<>>
    THEN draw_line(cur, Inches(120), Take(text, MaxStructureLen), Inches(15))
    ELSE cur

\* pdf_service.py 234-240: for each line the check of the cursor, then the line
RECURSIVE structure_lines(_, _)
structure_lines(cur, lines) ==
    IF lines = <<>> THEN cur
    ELSE IF cur.y < Inch
         THEN structure_lines(structure_line(new_page(cur), Head(lines)), Tail(lines))
         ELSE structure_lines(structure_line(cur, Head(lines)), Tail(lines))

\* pdf_service.py 225-240
structure_section(cur, project_structure) ==
    LET paged == call(new_page(cur), setFont("Helvetica-Bold", 12))
        headed == call(draw_line(paged, Inch, <<"P", "r", "o", "j", "e", "c", "t", " ", "S", "t", "r", "u", "c", "t", "u", "r", "e", ":">>, Inches(25)),
                       setFont("Courier", 8))
    IN structure_lines(headed, Take(SplitLines(project_structure), MaxStructureLines))

\* str(value) of a str or an int
py_str(value) == IF value.t = "int" THEN IntText(value.n) ELSE value.s

\* pdf_service.py 255-257: f"{key}: {value_str}"
report_line(cur, member) ==
    LET value == py_str(member.items[1])
        value_str == IF Len(value) > MaxValueLen
                     THEN Take(value, MaxValueLen) \o Ellipsis ELSE value
    IN draw_line(cur, Inches(150), member.s \o <<":", " ">> \o value_str, Inches(20))

\* pdf_service.py 251-257: for each item the check of the cursor, then its line
RECURSIVE report_lines(_, _)
report_lines(cur, members) ==
    IF members = <<>> THEN cur
    ELSE IF cur.y < Inch
         THEN report_lines(report_line(new_page(cur), Head(members)), Tail(members))
         ELSE report_lines(report_line(cur, Head(members)), Tail(members))

\* variant: the section is written whenever a dict is handed over
report_section_any_dict(cur, report) ==
    IF report.t = "dict"
    THEN report_lines(header(new_page(cur), <<"A", "d", "d", "i", "t", "i", "o", "n", "a", "l", " ", "R", "e", "p", "o", "r", "t", " ", "D", "e", "t", "a", "i", "l", "s", ":">>), report.items)
    ELSE cur

\* pdf_service.py 242-257; the report data is a dict or None
report_section(cur, report) ==
    IF Truthy(report)
    THEN report_lines(header(new_page(cur), <<"A", "d", "d", "i", "t", "i", "o", "n", "a", "l", " ", "R", "e", "p", "o", "r", "t", " ", "D", "e", "t", "a", "i", "l", "s", ":">>), report.items)
    ELSE cur

\* str.split(): the words between runs of whitespace
RECURSIVE split(_)
split(s) ==
    LET t == LStrip(s) IN
    IF t = <<>> THEN <<>>
    ELSE LET stops == { i \in 1..Len(t) : t[i] \in Whitespace } \cup {Len(t) + 1}
             stop == CHOOSE i \in stops : \A j \in stops : i <= j
         IN <<SubSeq(t, 1, stop - 1)>> \o split(SubSeq(t, stop, Len(t)))

\* variant: the word that does not fit is not carried to the next line
RECURSIVE wrap_words_dropping(_, _, _)
wrap_words_dropping(cur, text, words) ==
    IF words = <<>>
    THEN IF text # <<>> THEN draw_line(cur, Inches(120), text, Inches(18)) ELSE cur
    ELSE IF Len(text \o Head(words)) < WrapWidth
         THEN wrap_words_dropping(cur, text \o Head(words) \o <<" ">>, Tail(words))
         ELSE wrap_words_dropping(draw_line(cur, Inches(120), text, Inches(18)),
                                  <<" ", " ">>, Tail(words))

\* pdf_service.py 275-285: the loop over the words of a long step and the
\* line left at its end
RECURSIVE wrap_words(_, _, _)
wrap_words(cur, text, words) ==
    IF words = <<>>
    THEN IF text # <<>> THEN draw_line(cur, Inches(120), text, Inches(18)) ELSE cur
    ELSE IF Len(text \o Head(words)) < WrapWidth
         THEN wrap_words(cur, text \o Head(words) \o <<" ">>, Tail(words))
         ELSE wrap_words(draw_line(cur, Inches(120), text, Inches(18)),
                         <<" ", " ">> \o Head(words) \o <<" ">>, Tail(words))

\* pdf_service.py 272-288: a step of more than 85 characters is wrapped
draw_step(cur, step) ==
    IF Len(step) > WrapWidth
    THEN wrap_words(cur, <<>>, split(step))
    ELSE draw_line(cur, Inches(120), step, Inches(18))

\* pdf_service.py 268-288: for each step one check of the cursor, then the step
RECURSIVE draw_steps(_, _)
draw_steps(cur, step_list) ==
    IF step_list = <<>> THEN cur
    ELSE IF cur.y < Inch
         THEN draw_steps(draw_step(new_page(cur), Head(step_list)), Tail(step_list))
         ELSE draw_steps(draw_step(cur, Head(step_list)), Tail(step_list))

\* pdf_service.py 259-288
flow_section(cur, feature_names) ==
    LET paged == call(new_page(cur), setFont("Helvetica-Bold", 14))
        headed == call(draw_line(paged, Inch, <<"I", "m", "p", "l", "e", "m", "e", "n", "t", "a", "t", "i", "o", "n", " ", "F", "l", "o", "w", ":">>, Inches(40)),
                       setFont("Helvetica", 9))
    IN draw_steps(headed, generate_step_by_step_flow(feature_names))

\* pdf_service.py 290-297
diagram_page(cur) ==
    Append(draw_architecture_diagram(
               cur.ops \o << showPage, setFont("Helvetica-Bold", 14),
                             drawString(Inch, TopOfPage, <<"S", "y", "s", "t", "e", "m", " ", "A", "r", "c", "h", "i", "t", "e", "c", "t", "u", "r", "e", " ", "D", "i", "a", "g", "r", "a", "m">>) >>),
           save)

\* the calls generate_pdf makes on its canvas, in order
generate_pdf(args) ==
    diagram_page(
      flow_section(
        report_section(
          structure_section(
            texts_section(
              fonts_section(
                styles_section(
                  components_section(title_section(args.figma_data), args.components),
                  args.styles),
                args.fonts),
              args.texts),
            args.project_structure),
          args.report_data),
        args.features))

\* ---- the calls of generate_pdf ----
MaxPdfFeatures == 11

\* n names: the prefix followed by 1, 2, ..
Listing(prefix, n) == [i \in 1..n |-> prefix \o IntText(i)]
Filled(c, n) == [i \in 1..n |-> c]
ListSizes == {0, 1, MaxListed, MaxListed + 1}
FontSets == SUBSET { <<"R", "o", "b", "o", "t", "o">>, <<"I", "n", "t", "e", "r">>, <<"a", "r", "i", "a", "l">> }
TextLists ==
    { <<>>,
      << Filled("t", MaxTextLen), Filled("t", MaxTextLen + 1), <<"S", "i", "g", "n", " ", "i", "n">> >>,
      <<Filled("t", MaxTextLen + 1)>> \o Listing(<<"T", "e", "x", "t", " ">>, MaxTexts),
      Listing(<<"T", "e", "x", "t", " ">>, 3 * MaxTexts) }
\* a tree with blank lines; one with a line of more than 90 characters and a
\* line indented by more than 90; one of more than 50 lines
Structures ==
    { <<>>,
      <<"D", "o", "c", "u", "m", "e", "n", "t", " ", "(", "D", "O", "C", "U", "M", "E", "N", "T", ")", "\n", " ", " ", "H", "o", "m", "e", " ", "(", "C", "A", "N", "V", "A", "S", ")", "\n", "\n", " ", " ", " ", "\n", " ", " ", " ", " ", "T", "i", "t", "l", "e", " ", "(", "T", "E", "X", "T", ")", "\n">>,
      <<"D", "o", "c", "u", "m", "e", "n", "t", " ", "(", "D", "O", "C", "U", "M", "E", "N", "T", ")", "\n", " ", " ">> \o Filled("n", MaxStructureLen) \o <<" ", "(", "F", "R", "A", "M", "E", ")", "\n">>
          \o Filled(" ", MaxStructureLen + 2) \o <<"L", "e", "a", "f", " ", "(", "T", "E", "X", "T", ")", "\n">>,
      <<"D", "o", "c", "u", "m", "e", "n", "t", " ", "(", "D", "O", "C", "U", "M", "E", "N", "T", ")", "\n", "\n">> \o Filled("n", MaxStructureLen + 1) \o <<NL>>
          \o JoinLines(Listing(<<" ", " ", "F", "r", "a", "m", "e", " ">>, MaxStructureLines)) }
Reports ==
    { PyNone,
      PyDict(<<>>),
      PyDict(<< PyMember(<<"f", "i", "l", "e", "n", "a", "m", "e">>, PyStr(<<"n", "o", "t", "e", "s", ".", "t", "x", "t">>)),
                PyMember(<<"c", "o", "n", "t", "e", "n", "t", "_", "t", "y", "p", "e">>, PyStr(<<"t", "e", "x", "t", "/", "p", "l", "a", "i", "n">>)),
                PyMember(<<"s", "i", "z", "e">>, PyInt(MaxValueLen + 1)),
                PyMember(<<"c", "o", "n", "t", "e", "n", "t">>, PyStr(Filled("c", MaxValueLen + 1))) >>),
      PyDict([i \in 1..(3 * MaxListed) |-> PyMember(<<"k", "e", "y">> \o IntText(i), PyStr(<<"v", "a", "l", "u", "e">>))]) }
AccountSettings == <<"A", "c", "c", "o", "u", "n", "t", " ", "s", "e", "t", "t", "i", "n", "g", "s", " ", "a", "n", "d", " ", "n", "o", "t", "i", "f", "i", "c", "a", "t", "i", "o", "n", " ", "p", "r", "e", "f", "e", "r", "e", "n", "c", "e", "s">>
FeatureWords == { Login, AccountSettings, Filled("x", WrapWidth - 4) }
PdfFeatureLists == { [i \in 1..n |-> w] : n \in 0..MaxPdfFeatures, w \in FeatureWords }
Designs == { PyDict(<<>>), PyDict(<<PyMember("name", PyStr(Shop))>>) }

PdfArgs(figma, names, style_names, font_set, text_list, tree, report, feature_names) ==
    [figma_data |-> figma, components |-> names, styles |-> style_names,
     fonts |-> font_set, texts |-> text_list, project_structure |-> tree,
     report_data |-> report, features |-> feature_names]

PdfCalls ==
    { PdfArgs(PyDict(<<>>), Listing(<<"B", "u", "t", "t", "o", "n", " ">>, a), Listing(<<"C", "o", "l", "o", "u", "r", " ">>, b), f,
              <<>>, <<>>, PyNone, <<>>) :
        a \in ListSizes, b \in ListSizes, f \in FontSets }
    \cup { PdfArgs(d, Listing(<<"B", "u", "t", "t", "o", "n", " ">>, MaxListed + 1), Listing(<<"C", "o", "l", "o", "u", "r", " ">>, MaxListed + 1),
                    { <<"R", "o", "b", "o", "t", "o">>, <<"I", "n", "t", "e", "r">>, <<"a", "r", "i", "a", "l">> }, t, s, r, <<Login>>) :
             d \in Designs, t \in TextLists, s \in Structures, r \in Reports }
    \cup { PdfArgs(PyDict(<<>>), <<>>, <<>>, {}, <<>>, <<>>, r, w) :
             r \in {PyNone, PyDict(<<PyMember(<<"f", "i", "l", "e", "n", "a", "m", "e">>, PyStr(<<"n", "o", "t", "e", "s", ".", "t", "x", "t">>))>>)},
             w \in PdfFeatureLists }

InitPdf ==
    /\ pdf_pc = "call"
    /\ pdf_args \in PdfCalls
    /\ drawn = <<>>
    /\ OutsidePdfIdle

\* generate_pdf draws the report and saves the canvas
DrawReport ==
    /\ pdf_pc = "call"
    /\ drawn' = generate_pdf(pdf_args)
    /\ pdf_pc' = "saved"
    /\ UNCHANGED pdf_args
    /\ UNCHANGED OutsidePdf

NextPdf == DrawReport

SpecPdf == InitPdf /\ [][NextPdf]_pdfVars

\* ---- C21 .. C24 ----
ReportSaved == pdf_pc = "saved"
IsString(o) == o.op = "drawString"

\* The title lines and the section headers are the strings drawn at the
\* left margin; every other string of the report is drawn further right.
HeaderPositions == { i \in 1..Len(drawn) : IsString(drawn[i]) /\ drawn[i].x = Inch }
HeaderTexts ==
    LET headers == SelectSeq(drawn, LAMBDA o : IsString(o) /\ o.x = Inch)
    IN [i \in 1..Len(headers) |-> headers[i].text]
HasHeader(text) == \E i \in HeaderPositions : drawn[i].text = text
PositionOf(text) == CHOOSE i \in HeaderPositions : drawn[i].text = text
NextHeader(i) ==
    LET later == { j \in HeaderPositions : j > i }
    IN IF later = {} THEN Len(drawn) + 1 ELSE CHOOSE j \in later : \A k \in later : j <= k
\* the canvas calls of a section and the lines drawn in it, in order
SectionOps(text) == SubSeq(drawn, PositionOf(text) + 1, NextHeader(PositionOf(text)) - 1)
Rendered(text) ==
    LET strings == SelectSeq(SectionOps(text), IsString)
    IN [i \in 1..Len(strings) |-> strings[i].text]

ComponentsHeader == <<"C", "o", "m", "p", "o", "n", "e", "n", "t", "s", ":">>
StylesHeader == <<"S", "t", "y", "l", "e", "s", ":">>
FontsHeader == <<"F", "o", "n", "t", "s", ":">>
TextsHeader == <<"T", "e", "x", "t", " ", "E", "l", "e", "m", "e", "n", "t", "s", " ", "(", "s", "a", "m", "p", "l", "e", ")", ":">>
StructureHeader == <<"P", "r", "o", "j", "e", "c", "t", " ", "S", "t", "r", "u", "c", "t", "u", "r", "e", ":">>
ReportHeader == <<"A", "d", "d", "i", "t", "i", "o", "n", "a", "l", " ", "R", "e", "p", "o", "r", "t", " ", "D", "e", "t", "a", "i", "l", "s", ":">>
FlowHeader == <<"I", "m", "p", "l", "e", "m", "e", "n", "t", "a", "t", "i", "o", "n", " ", "F", "l", "o", "w", ":">>
DiagramHeader == <<"S", "y", "s", "t", "e", "m", " ", "A", "r", "c", "h", "i", "t", "e", "c", "t", "u", "r", "e", " ", "D", "i", "a", "g", "r", "a", "m">>

\* the positions of the body lines: the strings of the sections before the
\* diagram page
BodyLines ==
    { i \in 1..Len(drawn) :
        /\ IsString(drawn[i]) /\ drawn[i].x # Inch
        /\ i > PositionOf(ComponentsHeader) /\ i < PositionOf(DiagramHeader) }

\* C21: every body line of the basic report (the bullets of the components,
\* styles, fonts and texts, the hierarchy lines, the lines of the uploaded
\* report and the lines of the implementation flow, continuation lines of a
\* wrapped step included) is drawn with the cursor at or above the 1-inch
\* bottom margin and at or below the top margin, and a line drawn right
\* after a page was started is drawn at the top margin.
C21_BodyLinesWithinMargins ==
    ReportSaved
        => \A i \in BodyLines :
              /\ drawn[i].y >= Inch
              /\ drawn[i].y <= TopOfPage
              /\ drawn[i - 1].op = "showPage" => drawn[i].y = TopOfPage

Bulleted(names) == [i \in 1..Len(names) |-> <<BULLET, " ">> \o names[i]]
Unbulleted(lines) == [i \in 1..Len(lines) |-> SubSeq(lines[i], 3, Len(lines[i]))]

\* C22: the basic report renders at most the first 20 components, the first
\* 20 styles and the first 15 texts, every font in ascending order, a text of
\* at most 70 characters unchanged and a longer one as its first 70
\* characters followed by '...'; of the first 50 lines of the hierarchy it
\* renders those that are not blank, each cut to at most 90 characters.
C22_CapsSortingAndTruncation ==
    ReportSaved
        => LET names == pdf_args.components
               style_names == pdf_args.styles
               text_list == pdf_args.texts
               text_lines == Rendered(TextsHeader)
               font_lines == Unbulleted(Rendered(FontsHeader))
               tree == Take(SplitLines(pdf_args.project_structure), 50)
               kept == SelectSeq(tree, LAMBDA l : ~IsBlank(l))
               tree_lines == Rendered(StructureHeader)
           IN /\ names # <<>>
                   => Rendered(ComponentsHeader) = Bulleted(Take(names, 20))
              /\ style_names # <<>>
                   => Rendered(StylesHeader) = Bulleted(Take(style_names, 20))
              /\ Len(text_lines) = Min(Len(text_list), 15)
              /\ \A i \in 1..Len(text_lines) :
                    text_lines[i]
                      = <<BULLET, " ">>
                        \o (IF Len(text_list[i]) <= 70 THEN text_list[i]
                            ELSE SubSeq(text_list[i], 1, 70) \o <<".", ".", ".">>)
              /\ pdf_args.fonts # {}
                   => /\ Len(font_lines) = Cardinality(pdf_args.fonts)
                      /\ { font_lines[i] : i \in 1..Len(font_lines) } = pdf_args.fonts
                      /\ \A i \in 1..(Len(font_lines) - 1) :
                            str_less(font_lines[i], font_lines[i + 1])
              /\ Len(tree_lines) = Len(kept)
              /\ Len(tree_lines) <= 50
              /\ \A i \in 1..Len(tree_lines) :
                    /\ Len(tree_lines[i]) <= 90
                    /\ tree_lines[i] = SubSeq(kept[i], 1, Min(Len(kept[i]), 90))

\* more than 20 components and styles, three fonts, 16 texts of which the
\* first is longer than 70, and a hierarchy of more than 50 lines with a
\* blank line and a line of more than 90 characters among the first 50
C22_Witness ==
    /\ ReportSaved
    /\ Len(pdf_args.components) = 21 /\ Len(Rendered(ComponentsHeader)) = 20
    /\ Len(pdf_args.styles) = 21 /\ Len(Rendered(StylesHeader)) = 20
    /\ Unbulleted(Rendered(FontsHeader)) = << <<"I", "n", "t", "e", "r">>, <<"R", "o", "b", "o", "t", "o">>, <<"a", "r", "i", "a", "l">> >>
    /\ Len(pdf_args.texts) = 16 /\ Len(Rendered(TextsHeader)) = 15
    /\ Len(pdf_args.texts[1]) = 71 /\ Len(Rendered(TextsHeader)[1]) = 75
    /\ Len(SplitLines(pdf_args.project_structure)) = 53
    /\ Len(Rendered(StructureHeader)) = 49
    /\ Len(Rendered(StructureHeader)[2]) = 90

\* The lines of the flow section, grouped by step: a step begins with
\* 'Step', a continuation line with two spaces.
IsContinuation(text) == StartsWith(text, <<" ", " ">>)
StepLines(flow_lines) ==
    LET starts == { i \in 1..Len(flow_lines) : ~IsContinuation(flow_lines[i]) }
        nth(k) == CHOOSE i \in starts : Cardinality({ j \in starts : j < i }) = k - 1
        count == Cardinality(starts)
    IN [k \in 1..count |->
          SubSeq(flow_lines, nth(k), IF k = count THEN Len(flow_lines) ELSE nth(k + 1) - 1)]
WordsOf(lines) == Concat([i \in 1..Len(lines) |-> split(lines[i])])

\* what C23 says of every step, but for the length of the lines
StepsWrappedAtWords(grouped) ==
    LET step_list == generate_step_by_step_flow(pdf_args.features) IN
    /\ Len(grouped) = Len(step_list)
    /\ \A k \in 1..Len(step_list) :
          IF Len(step_list[k]) <= 85
          THEN grouped[k] = <<step_list[k]>>
          ELSE /\ WordsOf(grouped[k]) = split(step_list[k])
               /\ \A i \in 2..Len(grouped[k]) : IsContinuation(grouped[k][i])

\* C23 (as stated): a step of at most 85 characters is drawn as one line
\* unchanged; a longer step is split at word boundaries only, the words of
\* its lines in order being exactly its words, every line after the first
\* begins with two spaces, and no drawn line exceeds 85 characters.
C23_NoLineOver85 ==
    ReportSaved
        => LET flow_lines == Rendered(FlowHeader) IN
           /\ StepsWrappedAtWords(StepLines(flow_lines))
           /\ \A i \in 1..Len(flow_lines) : Len(flow_lines[i]) <= 85

\* C23 (amended): as above, but a drawn line exceeds 85 characters only when
\* it is a continuation line holding a single word.
C23_WrappedAtWordBoundaries ==
    ReportSaved
        => LET flow_lines == Rendered(FlowHeader) IN
           /\ StepsWrappedAtWords(StepLines(flow_lines))
           /\ \A i \in 1..Len(flow_lines) :
                 Len(flow_lines[i]) > 85
                    => IsContinuation(flow_lines[i]) /\ Len(split(flow_lines[i])) = 1

\* a feature named by one word of 81 characters: its steps are wrapped and
\* the quoted name stands alone on a line of 86 characters
C23_Witness ==
    /\ ReportSaved
    /\ Len(pdf_args.features) = 1 /\ Len(pdf_args.features[1]) = 81
    /\ LET grouped == StepLines(Rendered(FlowHeader)) IN
       /\ Len(grouped[3]) = 4
       /\ grouped[3][1] = <<"S", "t", "e", "p", " ", "3", ":", " ", "I", "m", "p", "l", "e", "m", "e", "n", "t", " ", "t", "h", "e", " ">>
       /\ Len(grouped[3][2]) = 86
       /\ grouped[3][3] = <<" ", " ", "f", "e", "a", "t", "u", "r", "e", " ", "i", "n", " ", "t", "h", "e", " ", "f", "r", "o", "n", "t", "e", "n", "d", " ", "u", "s", "i", "n", "g", " ", "S", "t", "r", "e", "a", "m", "l", "i", "t", " ", "c", "o", "m", "p", "o", "n", "e", "n", "t", "s", " ", "(", "e", ".", "g", ".", ",", " ", "b", "u", "t", "t", "o", "n", "s", ",", " ", "f", "o", "r", "m", "s", " ", "b", "a", "s", "e", "d", " ", "o", "n", " ">>
       /\ grouped[3][4] = <<" ", " ", "F", "i", "g", "m", "a", " ", "d", "e", "s", "i", "g", "n", ")", ".", " ">>
       /\ grouped[5] = << <<"S", "t", "e", "p", " ", "N", ":", " ", "I", "n", "t", "e", "g", "r", "a", "t", "e", " ", "f", "r", "o", "n", "t", "e", "n", "d", " ", "w", "i", "t", "h", " ", "b", "a", "c", "k", "e", "n", "d", " ", "v", "i", "a", " ", "A", "P", "I", " ", "c", "a", "l", "l", "s", ".">> >>

\* the canvas calls after the last showPage
LastPage ==
    LET breaks == { i \in 1..Len(drawn) : drawn[i].op = "showPage" }
        last == CHOOSE i \in breaks : \A j \in breaks : j <= i
    IN SubSeq(drawn, last + 1, Len(drawn))
Strings(ops) ==
    LET strings == SelectSeq(ops, IsString)
    IN [i \in 1..Len(strings) |-> <<strings[i].x, strings[i].y, strings[i].text>>]
Shapes(ops) == SelectSeq(ops, LAMBDA o : o.op \in {"rect", "line"})

\* C24: the sections of every basic report come in the order title,
\* components, styles, fonts, sample text, hierarchy, uploaded report (there
\* exactly when report data is handed over), implementation flow, diagram;
\* the implementation flow starts on a fresh page; the last page holds the
\* three boxes Frontend, Backend and Database and the two labelled arrows,
\* the same for every input.
C24_SectionOrderAndStaticDiagram ==
    ReportSaved
        => /\ HeaderTexts
                = << <<"S", "y", "s", "t", "e", "m", " ", "A", "r", "c", "h", "i", "t", "e", "c", "t", "u", "r", "e", " ", "R", "e", "p", "o", "r", "t">>,
                     <<"G", "e", "n", "e", "r", "a", "t", "e", "d", " ", "f", "r", "o", "m", " ", "F", "i", "g", "m", "a", ":", " ">>
                        \o dict_get(pdf_args.figma_data, "name", PyStr(<<"U", "n", "t", "i", "t", "l", "e", "d">>)).s,
                     ComponentsHeader, StylesHeader, FontsHeader, TextsHeader,
                     StructureHeader >>
                  \o (IF Truthy(pdf_args.report_data) THEN <<ReportHeader>> ELSE <<>>)
                  \o << FlowHeader, DiagramHeader >>
           /\ LET flow == PositionOf(FlowHeader)
                  before == { i \in 1..(flow - 1) : drawn[i].op \in {"showPage", "drawString"} }
              IN drawn[CHOOSE i \in before : \A j \in before : j <= i].op = "showPage"
           /\ Strings(LastPage)
                = << <<Inch, PageHeight - Inch, DiagramHeader>>,
                     <<8640, 54000, <<"F", "r", "o", "n", "t", "e", "n", "d">>>>, <<8640, 52560, <<"(", "S", "t", "r", "e", "a", "m", "l", "i", "t", ")">>>>,
                     <<30240, 54000, <<"B", "a", "c", "k", "e", "n", "d">>>>, <<30240, 52560, <<"(", "F", "a", "s", "t", "A", "P", "I", ")">>>>,
                     <<51840, 54000, <<"D", "a", "t", "a", "b", "a", "s", "e">>>>, <<51840, 52560, <<"(", "S", "Q", "L", "i", "t", "e", ")">>>>,
                     <<23040, 54720, <<"A", "P", "I", " ", "C", "a", "l", "l", "s">>>>, <<44640, 54720, <<"D", "B", " ", "Q", "u", "e", "r", "i", "e", "s">>>> >>
           /\ Shapes(LastPage)
                = << rect(Inch, 7 * Inch, 2 * Inch, Inch),
                     rect(4 * Inch, 7 * Inch, 2 * Inch, Inch),
                     rect(7 * Inch, 7 * Inch, 2 * Inch, Inch),
                     line(3 * Inch, 54000, 4 * Inch, 54000),
                     line(6 * Inch, 54000, 7 * Inch, 54000) >>
           /\ LastPage[Len(LastPage)] = save

\* a report with report data and a named design: ten headers, the report
\* section between the hierarchy and the flow
C24_Witness ==
    /\ ReportSaved
    /\ Truthy(pdf_args.report_data)
    /\ Len(pdf_args.components) = 21
    /\ Len(HeaderTexts) = 10
    /\ HeaderTexts[2] = <<"G", "e", "n", "e", "r", "a", "t", "e", "d", " ", "f", "r", "o", "m", " ", "F", "i", "g", "m", "a", ":", " ", "S", "h", "o", "p">>
    /\ HeaderTexts[8] = ReportHeader
    /\ HeaderTexts[9] = FlowHeader
    /\ Len(Shapes(LastPage)) = 5
====
